---- MODULE Spec2Model ----
(***************************************************************************)
(* The Amazing Marvin tool gateway: schema validation, one request to the *)
(* remote API, error normalisation, rendering in markdown or JSON, and    *)
(* the truncation guard.                                                   *)
(*                                                                         *)
(* Texts.  A Python str is modelled as a sequence of pieces.  A piece is  *)
(* a record [k, s, n]:                                                     *)
(*   k = "nl"   the newline character (n = 1);                             *)
(*   k = "lit"  the literal characters s (n = Len(s)), none a newline;     *)
(*   k = "chr"  one character named s (n = 1), not a newline;              *)
(*   k = "val"  the first n characters of the opaque value named s (a     *)
(*              title, a note, an identifier ... held by the remote),     *)
(*              none of them a newline or a character JSON escapes.       *)
(* The length of a text is the sum of the n of its pieces, so the real    *)
(* CHARACTER_LIMIT is used without enumerating characters.                *)
(***************************************************************************)
EXTENDS Integers, Sequences, FiniteSets, TLC

VARIABLES
    srv,        \* which of the two servers runs
    pc,         \* "idle", "awaiting" (the request is in flight) or "done"
    tool,       \* the tool invoked
    raw,        \* its raw input
    params,     \* the validated input
    today,      \* datetime.now() as YYYY-MM-DD, read by the date-defaulting tools
    requests,   \* the HTTP requests issued by this invocation, in order
    reply,      \* what the remote answered
    outcome,    \* "none", "rejected" (validation failed) or "returned"
    errors,     \* the violations validation reported
    output,     \* the text returned by the tool
    ran,        \* the components the tool body ran after the request, in order
    fn,         \* a pure function applied on its own: "call", then its name
    fnArg,      \* its argument
    fnRet,      \* its result
    inv,        \* the invocations running concurrently, one record each
    heap        \* the header dictionaries alive, by reference

gatewayVars ==
    <<srv, pc, tool, raw, params, today, requests, reply, outcome, errors, output, ran>>

fnVars == <<fn, fnArg, fnRet>>

concVars == <<inv, heap>>

vars == <<gatewayVars, fnVars, concVars>>

(***************************************************************************)
(* Bounds of the model.                                                    *)
(***************************************************************************)
\* Longest text, in pieces, handed to the truncation guard on its own.
MaxPieces == 3

\* Most records in a remote collection.
MaxRecords == 2

(***************************************************************************)
(* Program constants.                                                      *)
(***************************************************************************)
CHARACTER_LIMIT == 25000

(***************************************************************************)
(* Text primitives: len(), slicing, str.rfind, str.join, integer format.   *)
(***************************************************************************)
NL == [k |-> "nl", s |-> "\n", n |-> 1]

Lit(str) == [k |-> "lit", s |-> str, n |-> Len(str)]

\* One character that a TLA+ string cannot hold, by name.
Chr(name) == [k |-> "chr", s |-> name, n |-> 1]

BACKTICK == Chr("backtick")

Val(name, len) == [k |-> "val", s |-> name, n |-> len]

\* The text of a literal; the empty string is the empty text.
Txt(str) == IF str = "" THEN <<>> ELSE <<Lit(str)>>

\* The text of (a prefix of) an opaque value; nothing when it is empty.
ValTxt(name, len) == IF len <= 0 THEN <<>> ELSE <<Val(name, len)>>

\* The two halves of a sequence of two or more elements.  The operators on
\* sequences below recurse on halves, which keeps the recursion shallow.
Left(seq) == SubSeq(seq, 1, Len(seq) \div 2)

Right(seq) == SubSeq(seq, Len(seq) \div 2 + 1, Len(seq))

RECURSIVE TLen(_)
\* len(text)
TLen(t) ==
    IF Len(t) = 0 THEN 0
    ELSE IF Len(t) = 1 THEN t[1].n
    ELSE TLen(Left(t)) + TLen(Right(t))

\* The first k characters of one piece, 0 < k < piece.n.
CutPiece(p, k) ==
    IF p.k = "lit" THEN [p EXCEPT !.s = SubSeq(p.s, 1, k), !.n = k]
    ELSE [p EXCEPT !.n = k]

RECURSIVE Take(_, _)
\* text[:k] for k >= 0
Take(t, k) ==
    IF k <= 0 \/ Len(t) = 0 THEN <<>>
    ELSE IF Len(t) = 1 THEN (IF t[1].n <= k THEN t ELSE <<CutPiece(t[1], k)>>)
    ELSE LET n == TLen(Left(t))
         IN  IF k <= n THEN Take(Left(t), k) ELSE Left(t) \o Take(Right(t), k - n)

\* Index of the last newline piece of t, 0 when there is none.
LastNlPiece(t) ==
    LET nls == { i \in 1..Len(t) : t[i].k = "nl" }
    IN  IF nls = {} THEN 0 ELSE CHOOSE i \in nls : \A j \in nls : j <= i

\* text.rfind('\n'): the 0-based index of the last newline, -1 without one.
RFindNewline(t) ==
    LET i == LastNlPiece(t)
    IN  IF i = 0 THEN -1 ELSE TLen(SubSeq(t, 1, i - 1))

Digit(d) ==
    CASE d = 0 -> "0" [] d = 1 -> "1" [] d = 2 -> "2" [] d = 3 -> "3"
      [] d = 4 -> "4" [] d = 5 -> "5" [] d = 6 -> "6" [] d = 7 -> "7"
      [] d = 8 -> "8" [] d = 9 -> "9"

RECURSIVE DecStr(_)
\* str(n) for n >= 0
DecStr(n) == IF n < 10 THEN Digit(n) ELSE DecStr(n \div 10) \o Digit(n % 10)

\* Three digits, zero padded: one group of a thousands-separated number.
Group3(n) == Digit(n \div 100) \o Digit((n \div 10) % 10) \o Digit(n % 10)

RECURSIVE CommaStr(_)
\* f"{n:,}" for n >= 0
CommaStr(n) ==
    IF n < 1000 THEN DecStr(n)
    ELSE CommaStr(n \div 1000) \o "," \o Group3(n % 1000)

(***************************************************************************)
(* Truncation guard.                                                       *)
(***************************************************************************)
\* The notice appended to a truncated response; len is len(content).
TruncationNotice(len) ==
    << NL, NL, Lit("---"), NL,
       Lit("**"), Lit("Response Truncated"),
       Lit("**: Showing partial results due to size limit ("),
       Lit(CommaStr(len)), Lit(" characters). To see more:"), NL,
       Lit("- Use pagination with "), BACKTICK, Lit("limit"), BACKTICK,
       Lit(" and "), BACKTICK, Lit("offset"), BACKTICK, Lit(" parameters"), NL,
       Lit("- Add filters to narrow down results"), NL,
       Lit("- Request specific items by ID"), NL >>

\* The guard with the comparison off by one: a text of exactly
\* CHARACTER_LIMIT characters is truncated too.
TruncateStrictLimit(content) ==
    IF TLen(content) < CHARACTER_LIMIT THEN content
    ELSE LET truncated   == Take(content, CHARACTER_LIMIT)
             last_newline == RFindNewline(truncated)
         IN  (IF last_newline > 0 THEN Take(truncated, last_newline) ELSE truncated)
             \o TruncationNotice(TLen(content))

\* The guard without the step back to the last newline.
TruncateMidLine(content) ==
    IF TLen(content) <= CHARACTER_LIMIT THEN content
    ELSE Take(content, CHARACTER_LIMIT) \o TruncationNotice(TLen(content))

_truncate_response(content) ==
    IF TLen(content) <= CHARACTER_LIMIT THEN content
    ELSE LET truncated   == Take(content, CHARACTER_LIMIT)
             last_newline == RFindNewline(truncated)
         IN  (IF last_newline > 0 THEN Take(truncated, last_newline) ELSE truncated)
             \o TruncationNotice(TLen(content))

(***************************************************************************)
(* Error normaliser.  An exception is a record [cls, status, body, msg]:   *)
(* its class name, the status code and body of its response (an            *)
(* HTTPStatusError; 0 and "" otherwise) and the length of str(e).          *)
(***************************************************************************)
\* The direct base class of the exception classes the gateway can meet:
\* those of httpx and the builtins raised by the tool bodies.
BaseClass(cls) ==
    CASE cls = "HTTPStatusError"  -> "HTTPError"
      [] cls = "RequestError"     -> "HTTPError"
      [] cls = "TransportError"   -> "RequestError"
      [] cls = "TimeoutException" -> "TransportError"
      [] cls = "ConnectTimeout"   -> "TimeoutException"
      [] cls = "ReadTimeout"      -> "TimeoutException"
      [] cls = "WriteTimeout"     -> "TimeoutException"
      [] cls = "PoolTimeout"      -> "TimeoutException"
      [] cls = "NetworkError"     -> "TransportError"
      [] cls = "ConnectError"     -> "NetworkError"
      [] cls = "ReadError"        -> "NetworkError"
      [] cls = "JSONDecodeError"  -> "ValueError"
      [] OTHER                    -> "Exception"

RECURSIVE IsSubclass(_, _)
IsSubclass(cls, base) ==
    \/ cls = base
    \/ cls # "Exception" /\ IsSubclass(BaseClass(cls), base)

\* isinstance(e, base)
IsInstance(e, base) == IsSubclass(e.cls, base)

\* The two servers: the environment-token one (amazing_marvin_server.py) and
\* the per-session-configuration one (amazing_marvin_mcp/server.py).
Servers == {"env", "session"}

ERROR_PREFIX == Lit("Error: ")

MsgInvalidToken(sv) ==
    IF sv = "env"
    THEN << ERROR_PREFIX,
            Lit("Invalid API token. Please check your AMAZING_MARVIN_API_TOKEN "),
            Lit("environment variable is set correctly. Get your token at "),
            Lit("https://app.amazingmarvin.com/pre?api=") >>
    ELSE << ERROR_PREFIX,
            Lit("Invalid API token. Please check that your API token is correct. "),
            Lit("Get your token at https://app.amazingmarvin.com/pre?api=") >>

MsgPermission(sv) ==
    IF sv = "env"
    THEN << ERROR_PREFIX,
            Lit("Permission denied. This operation requires full access token. "),
            Lit("Set AMAZING_MARVIN_FULL_TOKEN environment variable if needed.") >>
    ELSE << ERROR_PREFIX,
            Lit("Permission denied. This operation may require full access token.") >>

MsgNotFound ==
    << ERROR_PREFIX,
       Lit("Resource not found. Please check that the ID is correct and "),
       Lit("the item still exists in Amazing Marvin.") >>

MsgRateLimit ==
    << ERROR_PREFIX,
       Lit("Rate limit exceeded. Please wait a moment before making more "),
       Lit("requests to the Amazing Marvin API.") >>

MsgServerError ==
    << ERROR_PREFIX,
       Lit("Amazing Marvin server error. The service may be temporarily "),
       Lit("unavailable. Please try again in a few moments.") >>

MsgStatus(status) ==
    << ERROR_PREFIX, Lit("API request failed with status "), Lit(DecStr(status)),
       Lit(". Please try again.") >>

MsgTimeout ==
    << ERROR_PREFIX,
       Lit("Request timed out. The Amazing Marvin API is taking too long to "),
       Lit("respond. Please try again.") >>

MsgConnect ==
    << ERROR_PREFIX,
       Lit("Cannot connect to Amazing Marvin API. Please check your internet "),
       Lit("connection and try again.") >>

MsgUnexpected(e) ==
    << ERROR_PREFIX, Lit("Unexpected error occurred - "), Lit(e.cls), Lit(": ") >>
    \o ValTxt("str(e)", e.msg)

\* The normaliser with its last line returning str(e) bare.
HandleErrorBareFallback(e, sv) ==
    IF IsInstance(e, "HTTPStatusError") THEN MsgStatus(e.status)
    ELSE ValTxt("str(e)", e.msg)

\* The normaliser testing the server-error range before the named statuses
\* and from 400 on.
HandleErrorRangeFirst(e, sv) ==
    IF IsInstance(e, "HTTPStatusError") THEN
        IF e.status >= 400 THEN MsgServerError
        ELSE MsgStatus(e.status)
    ELSE IF IsInstance(e, "TimeoutException") THEN MsgTimeout
    ELSE IF IsInstance(e, "ConnectError") THEN MsgConnect
    ELSE MsgUnexpected(e)

_handle_api_error(e, sv) ==
    IF IsInstance(e, "HTTPStatusError") THEN
        LET status == e.status
        IN  IF status = 401 THEN MsgInvalidToken(sv)
            ELSE IF status = 403 THEN MsgPermission(sv)
            ELSE IF status = 404 THEN MsgNotFound
            ELSE IF status = 429 THEN MsgRateLimit
            ELSE IF status >= 500 THEN MsgServerError
            ELSE MsgStatus(status)
    ELSE IF IsInstance(e, "TimeoutException") THEN MsgTimeout
    ELSE IF IsInstance(e, "ConnectError") THEN MsgConnect
    ELSE MsgUnexpected(e)

Exc(cls, len) == [cls |-> cls, status |-> 0, body |-> "", msg |-> len]

StatusExc(status, body) ==
    [cls |-> "HTTPStatusError", status |-> status, body |-> body, msg |-> 60]

(***************************************************************************)
(* Validation layer.  A raw input is a record whose fields are the keys    *)
(* the caller sent; a raw value is one of                                  *)
(*   [ty |-> "str", lead, core, trail]  a string: lead whitespace          *)
(*        characters, then the piece core (which neither starts nor ends   *)
(*        with whitespace), then trail whitespace characters;              *)
(*   [ty |-> "int", i], [ty |-> "bool", b], [ty |-> "list", items],        *)
(*   [ty |-> "null"].                                                      *)
(* Values are drawn with the JSON type they are meant to have or a type    *)
(* no coercion accepts; the lax coercions of the validation library are    *)
(* not drawn.                                                              *)
(***************************************************************************)
EMPTY == [k |-> "val", s |-> "", n |-> 0]

RStr(lead, core, trail) == [ty |-> "str", lead |-> lead, core |-> core, trail |-> trail]

\* A string without surrounding whitespace.
RS(core) == RStr(0, core, 0)

RInt(i) == [ty |-> "int", i |-> i]

RBool(b) == [ty |-> "bool", b |-> b]

RList(items) == [ty |-> "list", items |-> items]

RNull == [ty |-> "null"]

\* The string as given, its surrounding whitespace kept.
KeepWhitespace(rv) ==
    IF rv.lead + rv.trail = 0
    THEN rv.core
    ELSE [k |-> "val", s |-> rv.core.s, n |-> rv.lead + rv.core.n + rv.trail]

\* str_strip_whitespace: the string without its surrounding whitespace.
Strip(rv) == rv.core

IsDigit(c) == c \in {"0", "1", "2", "3", "4", "5", "6", "7", "8", "9"}

CharAt(str, i) == SubSeq(str, i, i)

\* The pattern searched for anywhere in the string (anchors dropped).
MatchesDatePatternAnywhere(piece) ==
    /\ piece.k = "lit"
    /\ \E o \in 0..(Len(piece.s) - 10) :
          /\ \A i \in {1, 2, 3, 4, 6, 7, 9, 10} : IsDigit(CharAt(piece.s, o + i))
          /\ CharAt(piece.s, o + 5) = "-"
          /\ CharAt(piece.s, o + 8) = "-"

\* The pattern ^\d{4}-\d{2}-\d{2}$ over the whole of a string.  An opaque
\* value is no date.
MatchesDatePattern(piece) ==
    /\ piece.k = "lit"
    /\ Len(piece.s) = 10
    /\ \A i \in {1, 2, 3, 4, 6, 7, 9, 10} : IsDigit(CharAt(piece.s, i))
    /\ CharAt(piece.s, 5) = "-"
    /\ CharAt(piece.s, 8) = "-"

NONE == 0 - 1

\* Field(ty, req, nullable, lo, hi, pat): a declared field.  lo and hi bound
\* the length of a string or list and the value of an integer (NONE: no
\* bound); pat tells whether the date pattern applies; dflt is the default
\* of a field with one ("" otherwise).
Field(ty, req, nullable, lo, hi, pat, dflt) ==
    [ty |-> ty, req |-> req, nullable |-> nullable, lo |-> lo, hi |-> hi,
     pat |-> pat, dflt |-> dflt]

ResponseFormats == {"markdown", "json"}

FormatField == Field("enum", FALSE, FALSE, NONE, NONE, FALSE, "markdown")

AddTaskInput ==
    [ title         |-> Field("str",  TRUE,  FALSE, 1, 500, FALSE, ""),
      note          |-> Field("str",  FALSE, TRUE,  NONE, 5000, FALSE, ""),
      day           |-> Field("str",  FALSE, TRUE,  NONE, NONE, TRUE, ""),
      due_date      |-> Field("str",  FALSE, TRUE,  NONE, NONE, TRUE, ""),
      parent_id     |-> Field("str",  FALSE, TRUE,  NONE, NONE, FALSE, ""),
      label_ids     |-> Field("list", FALSE, TRUE,  NONE, 20, FALSE, ""),
      time_estimate |-> Field("int",  FALSE, TRUE,  60000, 86400000, FALSE, ""),
      is_starred    |-> Field("bool", FALSE, TRUE,  NONE, NONE, FALSE, "") ]

GetTasksInput ==
    [ date            |-> Field("str", FALSE, TRUE, NONE, NONE, TRUE, ""),
      response_format |-> FormatField ]

MarkDoneInput == [ item_id |-> Field("str", TRUE, FALSE, 1, NONE, FALSE, "") ]

GetChildrenInput ==
    [ parent_id       |-> Field("str", TRUE, FALSE, 1, NONE, FALSE, ""),
      response_format |-> FormatField ]

StartTrackingInput == [ item_id |-> Field("str", TRUE, FALSE, 1, NONE, FALSE, "") ]

SimpleFormatInput == [ response_format |-> FormatField ]

\* marvin_stop_tracking declares no parameter.
NoInput == [ f \in {} |-> FormatField ]

Tools ==
    { "marvin_add_task", "marvin_get_todays_tasks", "marvin_mark_done",
      "marvin_get_due_tasks", "marvin_get_categories", "marvin_get_labels",
      "marvin_get_children", "marvin_start_tracking", "marvin_stop_tracking" }

ListingTools ==
    { "marvin_get_todays_tasks", "marvin_get_due_tasks", "marvin_get_categories",
      "marvin_get_labels", "marvin_get_children" }

\* The input model a tool's signature declares.
InputModel(t) ==
    CASE t = "marvin_add_task"         -> AddTaskInput
      [] t = "marvin_get_todays_tasks" -> GetTasksInput
      [] t = "marvin_mark_done"        -> MarkDoneInput
      [] t = "marvin_get_due_tasks"    -> GetTasksInput
      [] t = "marvin_get_categories"   -> SimpleFormatInput
      [] t = "marvin_get_labels"       -> SimpleFormatInput
      [] t = "marvin_get_children"     -> GetChildrenInput
      [] t = "marvin_start_tracking"   -> StartTrackingInput
      [] t = "marvin_stop_tracking"    -> NoInput

\* The errors one declared field's raw value draws, in validation order:
\* type, then (on the stripped string) length and pattern, or range.
FieldErrors(fd, rv) ==
    IF rv.ty = "null" THEN (IF fd.nullable THEN {} ELSE {fd.ty \o "_type"})
    ELSE IF fd.ty = "enum" THEN
        IF rv.ty = "str" /\ rv.lead = 0 /\ rv.trail = 0 /\ rv.core.s \in ResponseFormats
        THEN {} ELSE {"enum"}
    ELSE IF rv.ty # fd.ty THEN {fd.ty \o "_type"}
    ELSE IF fd.ty = "str" THEN
        LET v == Strip(rv)
        IN  (IF fd.lo # NONE /\ v.n < fd.lo THEN {"string_too_short"} ELSE {})
            \cup (IF fd.hi # NONE /\ v.n > fd.hi THEN {"string_too_long"} ELSE {})
            \cup (IF fd.pat /\ ~MatchesDatePattern(v)
                  THEN {"string_pattern_mismatch"} ELSE {})
    ELSE IF fd.ty = "int" THEN
        (IF rv.i < fd.lo THEN {"greater_than_equal"} ELSE {})
        \cup (IF rv.i > fd.hi THEN {"less_than_equal"} ELSE {})
    ELSE IF fd.ty = "list" THEN
        (IF Len(rv.items) > fd.hi THEN {"too_long"} ELSE {})
        \cup (IF \E i \in 1..Len(rv.items) : rv.items[i].ty # "str"
              THEN {"string_type"} ELSE {})
    ELSE {}

\* The validation with extra='forbid' left out: unknown fields are ignored.
ViolationsExtraIgnored(model, input) ==
    { <<f, "missing">> : f \in { g \in DOMAIN model : model[g].req /\ g \notin DOMAIN input } }
    \cup UNION { { <<f, err>> : err \in FieldErrors(model[f], input[f]) } :
                 f \in DOMAIN input \cap DOMAIN model }

\* Every violated constraint of a raw input, as <<field, error>> pairs:
\* missing required fields, bad values, and (extra='forbid') unknown fields.
Violations(model, input) ==
    { <<f, "missing">> : f \in { g \in DOMAIN model : model[g].req /\ g \notin DOMAIN input } }
    \cup { <<f, "extra_forbidden">> : f \in DOMAIN input \ DOMAIN model }
    \cup UNION { { <<f, err>> : err \in FieldErrors(model[f], input[f]) } :
                 f \in DOMAIN input \cap DOMAIN model }

RECURSIVE StripAll(_)
StripAll(items) ==
    IF items = <<>> THEN <<>> ELSE <<Strip(Head(items))>> \o StripAll(Tail(items))

\* The value of one validated field.
Validated(fd, rv) ==
    CASE fd.ty = "enum" -> rv.core.s
      [] fd.ty = "str"  -> Strip(rv)
      [] fd.ty = "int"  -> rv.i
      [] fd.ty = "bool" -> rv.b
      [] fd.ty = "list" -> StripAll(rv.items)

\* The typed input of a raw input without violations: the fields that were
\* given and not null, and the defaulted ones; a field that is None is left
\* out of the record.
Params(model, input) ==
    LET given == { f \in DOMAIN input \cap DOMAIN model : input[f].ty # "null" }
        dflt  == { f \in DOMAIN model \ given : model[f].dflt # "" }
    IN  [ f \in given \cup dflt |->
            IF f \in given THEN Validated(model[f], input[f]) ELSE model[f].dflt ]

(***************************************************************************)
(* Timestamp/duration formatter.  An epoch-millisecond value is a record   *)
(* [d, ms]: whole days since the epoch and milliseconds into that day,     *)
(* both counted in local time (the value itself exceeds the integers the   *)
(* checker computes with).  It is falsy when both are 0.  The remote may   *)
(* also send, under a key read as an epoch value, a number too large for   *)
(* the platform's time_t ([beyond |-> "time_t"]) or a string ([s, n]).     *)
(***************************************************************************)
Ts(d, ms) == [d |-> d, ms |-> ms]

BeyondTimeT == [beyond |-> "time_t"]

IsEpoch(v) == "d" \in DOMAIN v

IsString(v) == "n" \in DOMAIN v

\* bool(value)
TsTruthy(ts) ==
    IF IsEpoch(ts) THEN ts.d # 0 \/ ts.ms # 0
    ELSE IF IsString(ts) THEN ts.n > 0
    ELSE TRUE

\* The day number of 9999-12-31, the last day a datetime can hold.
MAX_DATE_DAY == 2932896

Pad2(n) == Digit((n \div 10) % 10) \o Digit(n % 10)

Pad4(n) == Pad2((n \div 100) % 100) \o Pad2(n % 100)

\* The civil date <<year, month, day>> of a day number (days since
\* 1970-01-01), d >= 0: datetime.fromtimestamp(...).date().
CivilFromDays(z0) ==
    LET z   == z0 + 719468
        era == z \div 146097
        doe == z - era * 146097
        yoe == (doe - doe \div 1460 + doe \div 36524 - doe \div 146096) \div 365
        doy == doe - (365 * yoe + yoe \div 4 - yoe \div 100)
        mp  == (5 * doy + 2) \div 153
        d   == doy - (153 * mp + 2) \div 5 + 1
        m   == IF mp < 10 THEN mp + 3 ELSE mp - 9
        y   == yoe + era * 400 + (IF m <= 2 THEN 1 ELSE 0)
    IN  <<y, m, d>>

\* The day number of a civil date, year >= 1.
DaysFromCivil(y0, m, d) ==
    LET y   == IF m <= 2 THEN y0 - 1 ELSE y0
        era == y \div 400
        yoe == y - era * 400
        doy == (153 * (IF m > 2 THEN m - 3 ELSE m + 9) + 2) \div 5 + d - 1
        doe == yoe * 365 + yoe \div 4 - yoe \div 100 + doy
    IN  era * 146097 + doe - 719468

\* dt.strftime("%Y-%m-%d")
StrfDate(ymd) == Pad4(ymd[1]) \o "-" \o Pad2(ymd[2]) \o "-" \o Pad2(ymd[3])

\* Present key that holds an epoch value / absent key.
Has(rec, f) == f \in DOMAIN rec

\* The exception datetime.fromtimestamp(value / 1000) raises, "" when it
\* raises none: TypeError for a string (the division), OverflowError for a
\* number beyond time_t, ValueError for a year after 9999.
FromTimestampError(v) ==
    IF IsString(v) THEN "TypeError"
    ELSE IF ~IsEpoch(v) THEN "OverflowError"
    ELSE IF v.d > MAX_DATE_DAY THEN "ValueError"
    ELSE ""

\* The exception _format_timestamp lets through for a record field, "" when
\* it returns: it catches ValueError and OSError only.
FormatTimestampRaises(rec, f) ==
    IF ~Has(rec, f) \/ ~TsTruthy(rec[f]) THEN ""
    ELSE IF FromTimestampError(rec[f]) \in {"ValueError", "OSError"} THEN ""
    ELSE FromTimestampError(rec[f])

\* _format_timestamp(timestamp) for a record field that may be absent, when
\* it returns; the default is "Not set".
_format_timestamp(rec, f) ==
    IF ~Has(rec, f) \/ ~TsTruthy(rec[f]) THEN Txt("Not set")
    ELSE IF FromTimestampError(rec[f]) # "" THEN Txt("Not set")
    ELSE Txt(StrfDate(CivilFromDays(rec[f].d)))

\* The minutes counted over the whole duration, the hours not taken out.
FormatEstimateWholeMinutes(rec, f) ==
    IF ~Has(rec, f) \/ rec[f] = 0 THEN Txt("Not set")
    ELSE LET ms      == rec[f]
             hours   == ms \div 3600000
             minutes == ms \div 60000
         IN  IF hours # 0 /\ minutes # 0
             THEN <<Lit(DecStr(hours)), Lit("h "), Lit(DecStr(minutes)), Lit("m")>>
             ELSE IF hours # 0 THEN <<Lit(DecStr(hours)), Lit("h")>>
             ELSE IF minutes # 0 THEN <<Lit(DecStr(minutes)), Lit("m")>>
             ELSE Txt("< 1m")

\* _format_time_estimate(ms) for a record field that may be absent.
_format_time_estimate(rec, f) ==
    IF ~Has(rec, f) \/ rec[f] = 0 THEN Txt("Not set")
    ELSE LET ms      == rec[f]
             hours   == ms \div 3600000
             minutes == (ms % 3600000) \div 60000
         IN  IF hours # 0 /\ minutes # 0
             THEN <<Lit(DecStr(hours)), Lit("h "), Lit(DecStr(minutes)), Lit("m")>>
             ELSE IF hours # 0 THEN <<Lit(DecStr(hours)), Lit("h")>>
             ELSE IF minutes # 0 THEN <<Lit(DecStr(minutes)), Lit("m")>>
             ELSE Txt("< 1m")

DigitVal(c) == CHOOSE d \in 0..9 : Digit(d) = c

\* The number written by the digits of str from position a to position b.
RECURSIVE NumAt(_, _, _)
NumAt(str, a, b) ==
    IF a > b THEN 0 ELSE NumAt(str, a, b - 1) * 10 + DigitVal(CharAt(str, b))

IsLeap(y) == (y % 4 = 0 /\ y % 100 # 0) \/ y % 400 = 0

DaysInMonth(y, m) ==
    IF m = 2 THEN (IF IsLeap(y) THEN 29 ELSE 28)
    ELSE IF m \in {4, 6, 9, 11} THEN 30 ELSE 31

\* The <<year, month, day>> written in a string of the date pattern.
DateFields(piece) == <<NumAt(piece.s, 1, 4), NumAt(piece.s, 6, 7), NumAt(piece.s, 9, 10)>>

\* datetime.strptime(s, "%Y-%m-%d") raises ValueError: the string has the
\* shape but names no day of the calendar.
StrptimeRaises(piece) ==
    LET f == DateFields(piece)
    IN  ~(f[1] >= 1 /\ f[2] \in 1..12 /\ f[3] >= 1 /\ f[3] <= DaysInMonth(f[1], f[2]))

\* The day number of datetime.strptime(s, "%Y-%m-%d"), at local midnight.
StrptimeDay(piece) ==
    LET f == DateFields(piece) IN DaysFromCivil(f[1], f[2], f[3])

\* (target_dt - due_dt).days: the floor of the difference in days.
DaysDiff(targetDay, due) == (targetDay - due.d) - (IF due.ms > 0 THEN 1 ELSE 0)

(***************************************************************************)
(* Remote records and JSON.  A remote record is a record holding any of    *)
(* the keys _id, title, note, parentId, type (strings [s, n]: the value    *)
(* named s, n characters long), done (a boolean), dueDate, day (epoch      *)
(* values) and timeEstimate (milliseconds).                                *)
(***************************************************************************)
Str(name, len) == [s |-> name, n |-> len]

\* The characters of a string value.
StrTxt(v) == ValTxt(v.s, v.n)

\* The value whole, not sliced.
StrWhole(v, k) == v

\* value[:k]
StrHead(v, k) == [v EXCEPT !.n = IF v.n < k THEN v.n ELSE k]

\* rec.get(f) of a string key, as text: None is written for an absent key.
GetTxtNoDefault(rec, f, default) == IF Has(rec, f) THEN StrTxt(rec[f]) ELSE Txt("None")

\* rec.get(f, default) of a string key, as text.
GetTxt(rec, f, default) == IF Has(rec, f) THEN StrTxt(rec[f]) ELSE Txt(default)

\* bool(rec.get(f)) for a string key, a boolean key, an epoch key, a number.
TruthyStr(rec, f) == Has(rec, f) /\ rec[f].n > 0

TruthyBool(rec, f) == Has(rec, f) /\ rec[f]

TruthyTs(rec, f) == Has(rec, f) /\ TsTruthy(rec[f])

TruthyInt(rec, f) == Has(rec, f) /\ rec[f] # 0

JNull == [j |-> "null"]

JStr(text) == [j |-> "str", text |-> text]

JNum(i) == [j |-> "num", i |-> i]

JBool(b) == [j |-> "bool", b |-> b]

JArr(items) == [j |-> "arr", items |-> items]

\* An object: its members in insertion order.
JObj(members) == [j |-> "obj", members |-> members]

Member(key, val) == [key |-> key, val |-> val]

\* rec.get(f) of a string key, as a JSON value.
GetJStr(rec, f) == IF Has(rec, f) THEN JStr(StrTxt(rec[f])) ELSE JNull

QUOTE == Lit("\"")

RECURSIVE Spaces(_)
Spaces(n) == IF n <= 0 THEN "" ELSE " " \o Spaces(n - 1)

RECURSIVE JsonDumps(_, _)
RECURSIVE JsonItems(_, _, _)
\* The items of an array or the members of an object from index i on, each
\* on its own line at the given indentation, separated by ",".
JsonItems(v, i, ind) ==
    LET seq  == IF v.j = "arr" THEN v.items ELSE v.members
        item == IF v.j = "arr" THEN JsonDumps(seq[i], ind)
                ELSE <<QUOTE, Lit(seq[i].key), QUOTE, Lit(": ")>>
                     \o JsonDumps(seq[i].val, ind)
    IN  Txt(Spaces(ind)) \o item
        \o (IF i = Len(seq) THEN <<>> ELSE <<Lit(","), NL>> \o JsonItems(v, i + 1, ind))

\* json.dumps(v, indent=2), v nested at indentation ind.
JsonDumps(v, ind) ==
    CASE v.j = "null" -> Txt("null")
      [] v.j = "bool" -> Txt(IF v.b THEN "true" ELSE "false")
      [] v.j = "num"  -> Txt(DecStr(v.i))
      [] v.j = "str"  -> <<QUOTE>> \o v.text \o <<QUOTE>>
      [] v.j = "arr"  ->
            IF v.items = <<>> THEN Txt("[]")
            ELSE <<Lit("["), NL>> \o JsonItems(v, 1, ind + 2)
                 \o <<NL>> \o Txt(Spaces(ind)) \o <<Lit("]")>>
      [] v.j = "obj"  ->
            IF v.members = <<>> THEN Txt("{}")
            ELSE <<Lit("{"), NL>> \o JsonItems(v, 1, ind + 2)
                 \o <<NL>> \o Txt(Spaces(ind)) \o <<Lit("}")>>

RECURSIVE MapSeq(_, _)
\* [F(x) for x in seq]
MapSeq(F(_), seq) ==
    IF Len(seq) = 0 THEN <<>>
    ELSE IF Len(seq) = 1 THEN <<F(seq[1])>>
    ELSE MapSeq(F, Left(seq)) \o MapSeq(F, Right(seq))

RECURSIVE Join(_)
\* "\n".join(lines)
Join(lines) ==
    IF Len(lines) = 0 THEN <<>>
    ELSE IF Len(lines) = 1 THEN lines[1]
    ELSE Join(Left(lines)) \o <<NL>> \o Join(Right(lines))

RECURSIVE Flatten(_)
\* The blocks of lines of the records, one after the other.
Flatten(blocks) ==
    IF Len(blocks) = 0 THEN <<>>
    ELSE IF Len(blocks) = 1 THEN blocks[1]
    ELSE Flatten(Left(blocks)) \o Flatten(Right(blocks))

\* A line present only under a condition.
Opt(cond, line) == IF cond THEN <<line>> ELSE <<>>

(***************************************************************************)
(* Response renderer.  The glyphs are single pieces; in the                *)
(* environment-token server's file each is written as the three, four or *)
(* six characters of its mis-decoded bytes.                                *)
(***************************************************************************)
Glyph(name, sv) ==
    [k |-> "chr", s |-> name,
     n |-> IF sv = "session" THEN (IF name = "timer" THEN 2 ELSE 1)
           ELSE (CASE name = "timer" -> 6 [] name = "folder" -> 4 [] OTHER -> 3)]

StatusGlyph(rec, sv) == Glyph(IF TruthyBool(rec, "done") THEN "done" ELSE "open", sv)

\* s if count != 1 else ''
Plural(count, one, many) == Txt(IF count # 1 THEN many ELSE one)

Num(i) == Txt(DecStr(i))

\* --- marvin_get_todays_tasks ------------------------------------------
TodayBlock(task, sv) ==
    << <<Lit("## "), StatusGlyph(task, sv), Lit(" ")>> \o GetTxt(task, "title", "Untitled"),
       <<Lit("- **ID**: ")>> \o GetTxt(task, "_id", "") >>
    \o Opt(TruthyTs(task, "dueDate"),
           <<Lit("- **Due**: ")>> \o _format_timestamp(task, "dueDate"))
    \o Opt(TruthyInt(task, "timeEstimate"),
           <<Lit("- **Estimate**: ")>> \o _format_time_estimate(task, "timeEstimate"))
    \o Opt(TruthyStr(task, "parentId"),
           <<Lit("- **Project**: ")>> \o GetTxt(task, "parentId", ""))
    \o Opt(TruthyStr(task, "note"),
           <<Lit("- **Note**: ")>> \o StrTxt(StrHead(task.note, 200)))
    \o << <<>> >>

TodayMarkdown(tasks, target_date, sv) ==
    << <<Lit("# Today's Tasks (")>> \o target_date \o <<Lit(")")>>,
       <<>>,
       <<Lit("Found ")>> \o Num(Len(tasks)) \o <<Lit(" task")>>
           \o Plural(Len(tasks), "", "s"),
       <<>> >>
    \o Flatten(MapSeq(LAMBDA x : TodayBlock(x, sv), tasks))

\* An object holding only the keys whose field the record carries.
TodayObjectSparse(t) ==
    JObj(Opt(Has(t, "_id"), Member("id", GetJStr(t, "_id")))
         \o Opt(Has(t, "title"), Member("title", GetJStr(t, "title")))
         \o << Member("done", JBool(IF Has(t, "done") THEN t.done ELSE FALSE)) >>
         \o Opt(TruthyTs(t, "dueDate"),
                Member("dueDate", JStr(_format_timestamp(t, "dueDate"))))
         \o Opt(TruthyInt(t, "timeEstimate"),
                Member("timeEstimate", JStr(_format_time_estimate(t, "timeEstimate"))))
         \o Opt(Has(t, "parentId"), Member("parentId", GetJStr(t, "parentId")))
         \o Opt(Has(t, "note"), Member("note", GetJStr(t, "note"))))

TodayObject(t) ==
    JObj(<< Member("id", GetJStr(t, "_id")),
            Member("title", GetJStr(t, "title")),
            Member("done", JBool(IF Has(t, "done") THEN t.done ELSE FALSE)),
            Member("dueDate", IF TruthyTs(t, "dueDate")
                              THEN JStr(_format_timestamp(t, "dueDate")) ELSE JNull),
            Member("timeEstimate", IF TruthyInt(t, "timeEstimate")
                                   THEN JStr(_format_time_estimate(t, "timeEstimate"))
                                   ELSE JNull),
            Member("parentId", GetJStr(t, "parentId")),
            Member("note", GetJStr(t, "note")) >>)

TodayJson(tasks, target_date) ==
    JObj(<< Member("date", JStr(target_date)),
            Member("total", JNum(Len(tasks))),
            Member("tasks", JArr(MapSeq(TodayObject, tasks))) >>)

\* --- marvin_get_due_tasks ---------------------------------------------
\* The tag with the overdue test at days_diff >= 0.
OverdueTagFromToday(task, targetDay) ==
    IF ~TruthyTs(task, "dueDate") THEN <<>>
    ELSE IF DaysDiff(targetDay, task.dueDate) >= 0 THEN Txt(" [OVERDUE]") ELSE <<>>

\* The tag after the title: days_diff > 0, = 0, or neither.
OverdueTag(task, targetDay) ==
    IF ~TruthyTs(task, "dueDate") THEN <<>>
    ELSE LET days_diff == DaysDiff(targetDay, task.dueDate)
         IN  IF days_diff > 0 THEN Txt(" [OVERDUE]")
             ELSE IF days_diff = 0 THEN Txt(" [DUE TODAY]")
             ELSE <<>>

DueBlock(task, targetDay, sv) ==
    << <<Lit("## "), StatusGlyph(task, sv), Lit(" ")>> \o GetTxt(task, "title", "Untitled")
           \o OverdueTag(task, targetDay),
       <<Lit("- **ID**: ")>> \o GetTxt(task, "_id", ""),
       <<Lit("- **Due**: ")>> \o _format_timestamp(task, "dueDate") >>
    \o Opt(TruthyInt(task, "timeEstimate"),
           <<Lit("- **Estimate**: ")>> \o _format_time_estimate(task, "timeEstimate"))
    \o Opt(TruthyStr(task, "note"),
           <<Lit("- **Note**: ")>> \o StrTxt(StrHead(task.note, 200)))
    \o << <<>> >>

DueMarkdown(tasks, target_date, targetDay, sv) ==
    << <<Lit("# Due & Overdue Tasks (as of ")>> \o target_date \o <<Lit(")")>>,
       <<>>,
       <<Lit("Found ")>> \o Num(Len(tasks)) \o <<Lit(" task")>>
           \o Plural(Len(tasks), "", "s") \o <<Lit(" requiring attention")>>,
       <<>> >>
    \o Flatten(MapSeq(LAMBDA x : DueBlock(x, targetDay, sv), tasks))

DueObject(task, targetDay) ==
    JObj(<< Member("id", GetJStr(task, "_id")),
            Member("title", GetJStr(task, "title")),
            Member("done", JBool(IF Has(task, "done") THEN task.done ELSE FALSE)),
            Member("dueDate", IF TruthyTs(task, "dueDate")
                              THEN JStr(_format_timestamp(task, "dueDate")) ELSE JNull),
            Member("timeEstimate", IF TruthyInt(task, "timeEstimate")
                                   THEN JStr(_format_time_estimate(task, "timeEstimate"))
                                   ELSE JNull) >>
         \o (IF TruthyTs(task, "dueDate") /\ DaysDiff(targetDay, task.dueDate) > 0
             THEN << Member("daysOverdue", JNum(DaysDiff(targetDay, task.dueDate))) >>
             ELSE <<>>))

DueJson(tasks, target_date, targetDay) ==
    JObj(<< Member("asOf", JStr(target_date)),
            Member("total", JNum(Len(tasks))),
            Member("tasks", JArr(MapSeq(LAMBDA x : DueObject(x, targetDay), tasks))) >>)

\* --- marvin_get_categories --------------------------------------------
CategoryBlock(cat) ==
    << <<Lit("## ")>> \o GetTxt(cat, "title", "Untitled") \o <<Lit(" (")>>
           \o GetTxt(cat, "type", "unknown") \o <<Lit(")")>>,
       <<Lit("- **ID**: ")>> \o GetTxt(cat, "_id", ""),
       <<Lit("- **Type**: ")>> \o GetTxt(cat, "type", "unknown") >>
    \o Opt(TruthyStr(cat, "parentId"),
           <<Lit("- **Parent**: ")>> \o GetTxt(cat, "parentId", ""))
    \o Opt(TruthyStr(cat, "note"),
           <<Lit("- **Note**: ")>> \o StrTxt(StrHead(cat.note, 150)))
    \o << <<>> >>

CategoriesMarkdown(categories) ==
    << <<Lit("# Categories & Projects")>>,
       <<>>,
       <<Lit("Found ")>> \o Num(Len(categories)) \o <<Lit(" categor")>>
           \o Plural(Len(categories), "y", "ies") \o <<Lit(" and projects")>>,
       <<>> >>
    \o Flatten(MapSeq(CategoryBlock, categories))

CategoryObject(c) ==
    JObj(<< Member("id", GetJStr(c, "_id")),
            Member("title", GetJStr(c, "title")),
            Member("type", GetJStr(c, "type")),
            Member("parentId", GetJStr(c, "parentId")),
            Member("note", GetJStr(c, "note")) >>)

CategoriesJson(categories) ==
    JObj(<< Member("total", JNum(Len(categories))),
            Member("categories",
                   JArr(MapSeq(CategoryObject, categories))) >>)

\* --- marvin_get_labels ------------------------------------------------
LabelBlock(label) ==
    << <<Lit("## ")>> \o GetTxt(label, "title", "Untitled"),
       <<Lit("- **ID**: ")>> \o GetTxt(label, "_id", ""),
       <<>> >>

LabelsMarkdown(labels) ==
    << <<Lit("# Labels")>>,
       <<>>,
       <<Lit("Found ")>> \o Num(Len(labels)) \o <<Lit(" label")>>
           \o Plural(Len(labels), "", "s"),
       <<>> >>
    \o Flatten(MapSeq(LabelBlock, labels))

LabelObject(l) ==
    JObj(<< Member("id", GetJStr(l, "_id")), Member("title", GetJStr(l, "title")) >>)

LabelsJson(labels) ==
    JObj(<< Member("total", JNum(Len(labels))),
            Member("labels", JArr(MapSeq(LabelObject, labels))) >>)

\* --- marvin_get_children ----------------------------------------------
ChildBlock(item, sv) ==
    LET isProject == Has(item, "type") /\ item.type = Str("project", 7)
        type_emoji == IF isProject THEN Glyph("folder", sv) ELSE StatusGlyph(item, sv)
    IN  << <<Lit("## "), type_emoji, Lit(" ")>> \o GetTxt(item, "title", "Untitled")
               \o <<Lit(" (")>> \o GetTxt(item, "type", "task") \o <<Lit(")")>>,
           <<Lit("- **ID**: ")>> \o GetTxt(item, "_id", ""),
           <<Lit("- **Type**: ")>> \o GetTxt(item, "type", "task") >>
        \o Opt(TruthyTs(item, "dueDate"),
               <<Lit("- **Due**: ")>> \o _format_timestamp(item, "dueDate"))
        \o Opt(TruthyInt(item, "timeEstimate"),
               <<Lit("- **Estimate**: ")>> \o _format_time_estimate(item, "timeEstimate"))
        \o Opt(TruthyStr(item, "note"),
               <<Lit("- **Note**: ")>> \o StrTxt(StrHead(item.note, 150)))
        \o << <<>> >>

ChildrenMarkdown(items, parent_id, sv) ==
    << <<Lit("# Items in: ")>> \o parent_id,
       <<>>,
       <<Lit("Found ")>> \o Num(Len(items)) \o <<Lit(" item")>>
           \o Plural(Len(items), "", "s"),
       <<>> >>
    \o Flatten(MapSeq(LAMBDA x : ChildBlock(x, sv), items))

ChildObject(i) ==
    JObj(<< Member("id", GetJStr(i, "_id")),
            Member("title", GetJStr(i, "title")),
            Member("type", GetJStr(i, "type")),
            Member("done", JBool(IF Has(i, "done") THEN i.done ELSE FALSE)),
            Member("dueDate", IF TruthyTs(i, "dueDate")
                              THEN JStr(_format_timestamp(i, "dueDate")) ELSE JNull),
            Member("timeEstimate", IF TruthyInt(i, "timeEstimate")
                                   THEN JStr(_format_time_estimate(i, "timeEstimate"))
                                   ELSE JNull),
            Member("note", GetJStr(i, "note")) >>)

ChildrenJson(items, parent_id) ==
    JObj(<< Member("parent_id", JStr(parent_id)),
            Member("total", JNum(Len(items))),
            Member("items", JArr(MapSeq(ChildObject, items))) >>)

(***************************************************************************)
(* API client and tool bodies.                                             *)
(***************************************************************************)
API_BASE_URL == "https://serv.amazingmarvin.com/api"

\* No json body / no query parameters.
NoData == <<>>

_get_headers(sv) ==
    IF sv = "env"
    THEN { [name |-> "X-API-Token", value |-> "environment AMAZING_MARVIN_API_TOKEN"] }
    ELSE { [name |-> "X-API-Token", value |-> "session_config.api_token"] }

\* A module-level dictionary handed to every caller.
SharedHeaders(h, sv) ==
    IF h = <<>>
    THEN [heap |-> <<_get_headers(sv)>>, ref |-> 1]
    ELSE [heap |-> h, ref |-> 1]

\* headers = _get_headers(): the dictionary literal builds a new object on
\* every call; the caller holds the only reference to it.
NewHeaders(h, sv) == [heap |-> Append(h, _get_headers(sv)), ref |-> Len(h) + 1]

\* headers["Content-Type"] = "application/json", on the object referred to.
SetContentType(h, ref) ==
    [h EXCEPT ![ref] = @ \cup { [name |-> "Content-Type", value |-> "application/json"] }]

\* The request _make_api_request issues: the URL, the credential header, for
\* a POST the JSON content type and the body, for a GET the query.
Request(endpoint, method, data, query, sv) ==
    [ url     |-> API_BASE_URL \o endpoint,
      method  |-> method,
      headers |-> _get_headers(sv)
                  \cup (IF method = "POST"
                        THEN { [name |-> "Content-Type", value |-> "application/json"] }
                        ELSE {}),
      json    |-> IF method = "POST" THEN data ELSE NoData,
      query   |-> IF method = "GET" THEN query ELSE NoData ]

\* A client that tries once more when its attempt has failed.
RetryOnFailure(req, rep) == IF rep.kind # "ok" THEN <<req>> ELSE <<>>

\* The requests the client adds once the remote has answered: none, it makes
\* its one attempt and hands the answer or the failure on.
Retries(req, rep) == <<>>

\* What awaiting the request yields: the decoded payload, or the exception
\* raised by the transport, by raise_for_status (any non-2xx status) or by
\* response.json().
_make_api_request(rep) ==
    CASE rep.kind = "ok"     -> [raised |-> FALSE, value |-> rep.payload]
      [] rep.kind = "status" -> [raised |-> TRUE, exc |-> StatusExc(rep.status, rep.body)]
      [] rep.kind = "raise"  -> [raised |-> TRUE, exc |-> Exc(rep.cls, rep.msg)]

\* params.date or datetime.now().strftime("%Y-%m-%d"), as a piece.
TargetDate(p, now) == IF Has(p, "date") /\ p.date.n > 0 THEN p.date ELSE Lit(now)

\* The body with each optional field tested for truth, not for None.
TaskDataTruthy(p) ==
    LET truthy(f) == CASE f = "is_starred"    -> p[f]
                       [] f = "label_ids"     -> Len(p[f]) > 0
                       [] f = "time_estimate" -> p[f] # 0
                       [] OTHER               -> p[f].n > 0
        opt == { f \in {"note", "day", "due_date", "parent_id", "label_ids",
                        "time_estimate", "is_starred"} : Has(p, f) /\ truthy(f) }
        key(f) == CASE f = "note" -> "note" [] f = "day" -> "day"
                    [] f = "due_date" -> "dueDate" [] f = "parent_id" -> "parentId"
                    [] f = "label_ids" -> "labelIds" [] f = "time_estimate" -> "timeEstimate"
                    [] f = "is_starred" -> "isStarred"
    IN  { [key |-> "title", val |-> [v |-> p.title]], [key |-> "done", val |-> [v |-> FALSE]] }
        \cup { [key |-> key(f), val |-> [v |-> p[f]]] : f \in opt }

\* The fields of the add-task body: title and done, and each optional field
\* that is not None.
TaskData(p) ==
    LET opt == { f \in {"note", "day", "due_date", "parent_id", "label_ids",
                        "time_estimate", "is_starred"} : Has(p, f) }
        key(f) == CASE f = "note" -> "note" [] f = "day" -> "day"
                    [] f = "due_date" -> "dueDate" [] f = "parent_id" -> "parentId"
                    [] f = "label_ids" -> "labelIds" [] f = "time_estimate" -> "timeEstimate"
                    [] f = "is_starred" -> "isStarred"
    IN  { [key |-> "title", val |-> [v |-> p.title]], [key |-> "done", val |-> [v |-> FALSE]] }
        \cup { [key |-> key(f), val |-> [v |-> p[f]]] : f \in opt }

\* Every tool posting to its endpoint.
ToolRequestPosting(t, p, now, sv) == Request("/" \o t, "POST", NoData, NoData, sv)

\* The one request a tool sends.
ToolRequest(t, p, now, sv) ==
    CASE t = "marvin_add_task" ->
            Request("/addTask", "POST", TaskData(p), NoData, sv)
      [] t = "marvin_get_todays_tasks" ->
            Request("/todayItems", "GET", NoData,
                    { [key |-> "date", val |-> [v |-> TargetDate(p, now)]] }, sv)
      [] t = "marvin_mark_done" ->
            Request("/markDone", "POST",
                    { [key |-> "itemId", val |-> [v |-> p.item_id]] }, NoData, sv)
      [] t = "marvin_get_due_tasks" ->
            Request("/dueItems", "GET", NoData,
                    { [key |-> "by", val |-> [v |-> TargetDate(p, now)]] }, sv)
      [] t = "marvin_get_categories" ->
            Request("/categories", "GET", NoData, NoData, sv)
      [] t = "marvin_get_labels" ->
            Request("/labels", "GET", NoData, NoData, sv)
      [] t = "marvin_get_children" ->
            Request("/children", "GET", NoData,
                    { [key |-> "parentId", val |-> [v |-> p.parent_id]] }, sv)
      [] t = "marvin_start_tracking" ->
            Request("/track", "POST",
                    { [key |-> "itemId", val |-> [v |-> p.item_id]],
                      [key |-> "action", val |-> [v |-> Lit("START")]] }, NoData, sv)
      [] t = "marvin_stop_tracking" ->
            Request("/track", "POST",
                    { [key |-> "action", val |-> [v |-> Lit("STOP")]] }, NoData, sv)

\* A decoded payload: [shape |-> "list", items], [shape |-> "dict", rec] or
\* [shape |-> "null"].
ListPayload(items) == [shape |-> "list", items |-> items]

DictPayload(rec) == [shape |-> "dict", rec |-> rec]

NullPayload == [shape |-> "null"]

\* payload is None
FalsyNoneOnly(payload) == payload.shape = "null"

\* not payload
Falsy(payload) ==
    \/ payload.shape = "null"
    \/ payload.shape = "list" /\ payload.items = <<>>
    \/ payload.shape = "dict" /\ DOMAIN payload.rec = {}

\* What a tool body yields: the text it returns and the components it ran.
Result(text, comps) == [output |-> text, ran |-> comps]

\* The normalised error handed to the truncation guard before it is returned.
CaughtThenBounded(e, sv, comps) ==
    [output |-> _truncate_response(_handle_api_error(e, sv)),
     ran |-> comps \o <<"normalizer", "truncation">>]

\* except Exception as e: return _handle_api_error(e)
Caught(e, sv, comps) == Result(_handle_api_error(e, sv), comps \o <<"normalizer">>)

\* Calling .get on something that is no dict.
NoGet(payload) ==
    Exc("AttributeError", 40)

\* The zero-result sentence of a listing tool.
EmptySentence(t, p, now) ==
    CASE t = "marvin_get_todays_tasks" ->
            <<Lit("No tasks scheduled for "), TargetDate(p, now), Lit(".")>>
      [] t = "marvin_get_due_tasks" ->
            <<Lit("No due or overdue tasks as of "), TargetDate(p, now), Lit(".")>>
      [] t = "marvin_get_categories" -> Txt("No categories or projects found.")
      [] t = "marvin_get_labels" -> Txt("No labels found.")
      [] t = "marvin_get_children" ->
            <<Lit("No items found under parent ID: "), p.parent_id>>

\* The document a listing tool builds from a non-empty list of records,
\* before the truncation guard.
Rendering(t, fmt, items, p, now, sv) ==
    LET date == <<TargetDate(p, now)>>
    IN  CASE t = "marvin_get_todays_tasks" ->
                IF fmt = "markdown" THEN Join(TodayMarkdown(items, date, sv))
                ELSE JsonDumps(TodayJson(items, date), 0)
          [] t = "marvin_get_due_tasks" ->
                IF fmt = "markdown"
                THEN Join(DueMarkdown(items, date, StrptimeDay(TargetDate(p, now)), sv))
                ELSE JsonDumps(DueJson(items, date, StrptimeDay(TargetDate(p, now))), 0)
          [] t = "marvin_get_categories" ->
                IF fmt = "markdown" THEN Join(CategoriesMarkdown(items))
                ELSE JsonDumps(CategoriesJson(items), 0)
          [] t = "marvin_get_labels" ->
                IF fmt = "markdown" THEN Join(LabelsMarkdown(items))
                ELSE JsonDumps(LabelsJson(items), 0)
          [] t = "marvin_get_children" ->
                IF fmt = "markdown" THEN Join(ChildrenMarkdown(items, <<p.parent_id>>, sv))
                ELSE JsonDumps(ChildrenJson(items, <<p.parent_id>>), 0)

\* The exception the rendering of a record raises, "" when it raises none:
\* the tools that show a due date format it, and the due-task tool also
\* converts it, outside _format_timestamp, for the days overdue.
BlockRaises(t, item) ==
    IF t \in {"marvin_get_categories", "marvin_get_labels"} THEN ""
    ELSE IF FormatTimestampRaises(item, "dueDate") # ""
    THEN FormatTimestampRaises(item, "dueDate")
    ELSE IF t = "marvin_get_due_tasks" /\ TruthyTs(item, "dueDate")
    THEN FromTimestampError(item.dueDate)
    ELSE ""

\* The exception of the first record whose rendering raises, "" when none
\* does.
RenderingRaises(t, items) ==
    LET bad == { i \in 1..Len(items) : BlockRaises(t, items[i]) # "" }
    IN  IF bad = {} THEN ""
        ELSE BlockRaises(t, items[CHOOSE i \in bad : \A j \in bad : i <= j])

\* The body of a listing tool after the request: the zero-result sentence,
\* or (due tasks) the parse of the reference date, then the rendering and
\* the truncation guard; every exception on the way is normalised.
ListingBody(t, p, now, sv, rep) ==
    LET r == _make_api_request(rep)
    IN  IF r.raised THEN Caught(r.exc, sv, <<>>)
        ELSE IF Falsy(r.value) THEN Result(EmptySentence(t, p, now), <<>>)
        ELSE IF t = "marvin_get_due_tasks" /\ StrptimeRaises(TargetDate(p, now))
        THEN Caught(Exc("ValueError", 60), sv, <<>>)
        ELSE IF r.value.shape # "list" THEN Caught(NoGet(r.value), sv, <<"renderer">>)
        ELSE IF RenderingRaises(t, r.value.items) # ""
        THEN Caught(Exc(RenderingRaises(t, r.value.items), 50), sv, <<"renderer">>)
        ELSE Result(_truncate_response(
                        Rendering(t, p.response_format, r.value.items, p, now, sv)),
                    <<"renderer", "truncation">>)

\* The confirmation of marvin_add_task.
AddTaskConfirmation(result, sv) ==
    Join(<< <<Glyph("done", sv), Lit(" Task created successfully!")>>,
            <<>>,
            <<Lit("**ID**: ")>> \o GetTxt(result, "_id", "N/A"),
            <<Lit("**Title**: ")>> \o GetTxt(result, "title", "N/A") >>
         \o Opt(TruthyTs(result, "day"),
                <<Lit("**Scheduled**: ")>> \o _format_timestamp(result, "day"))
         \o Opt(TruthyTs(result, "dueDate"),
                <<Lit("**Due**: ")>> \o _format_timestamp(result, "dueDate"))
         \o Opt(TruthyInt(result, "timeEstimate"),
                <<Lit("**Time Estimate**: ")>>
                \o _format_time_estimate(result, "timeEstimate")))

marvin_add_task(p, sv, rep) ==
    LET r == _make_api_request(rep)
    IN  IF r.raised THEN Caught(r.exc, sv, <<>>)
        ELSE IF r.value.shape # "dict" THEN Caught(NoGet(r.value), sv, <<"confirmation">>)
        ELSE IF FormatTimestampRaises(r.value.rec, "day") # ""
        THEN Caught(Exc(FormatTimestampRaises(r.value.rec, "day"), 50), sv,
                    <<"confirmation">>)
        ELSE IF FormatTimestampRaises(r.value.rec, "dueDate") # ""
        THEN Caught(Exc(FormatTimestampRaises(r.value.rec, "dueDate"), 50), sv,
                    <<"confirmation">>)
        ELSE Result(AddTaskConfirmation(r.value.rec, sv), <<"confirmation">>)

marvin_mark_done(p, sv, rep) ==
    LET r == _make_api_request(rep)
    IN  IF r.raised THEN Caught(r.exc, sv, <<>>)
        ELSE Result(<<Glyph("done", sv), Lit(" Task marked as complete!"), NL, NL,
                      Lit("**Task ID**: "), p.item_id>>, <<"confirmation">>)

marvin_start_tracking(p, sv, rep) ==
    LET r == _make_api_request(rep)
    IN  IF r.raised THEN Caught(r.exc, sv, <<>>)
        ELSE Result(<<Glyph("timer", sv), Lit(" Timer started for task!"), NL, NL,
                      Lit("**Task ID**: "), p.item_id, NL, NL,
                      Lit("_Note: Any previously running timer has been stopped._")>>,
                    <<"confirmation">>)

marvin_stop_tracking(sv, rep) ==
    LET r == _make_api_request(rep)
    IN  IF r.raised THEN Caught(r.exc, sv, <<>>)
        ELSE Result(<<Glyph("timer", sv), Lit(" Timer stopped successfully!"), NL, NL,
                      Lit("_Time tracking has been saved to the task._")>>,
                    <<"confirmation">>)

\* The body of a tool from the answer of the remote to its return.
ToolBody(t, p, now, sv, rep) ==
    CASE t \in ListingTools           -> ListingBody(t, p, now, sv, rep)
      [] t = "marvin_add_task"        -> marvin_add_task(p, sv, rep)
      [] t = "marvin_mark_done"       -> marvin_mark_done(p, sv, rep)
      [] t = "marvin_start_tracking"  -> marvin_start_tracking(p, sv, rep)
      [] t = "marvin_stop_tracking"   -> marvin_stop_tracking(sv, rep)

\* The side-effect hints a tool declares in its @mcp.tool(annotations=...).
Annotations(t) ==
    [ readOnlyHint    |-> t \in ListingTools,
      destructiveHint |-> FALSE,
      idempotentHint  |-> t \notin {"marvin_add_task", "marvin_start_tracking"},
      openWorldHint   |-> TRUE ]

(***************************************************************************)
(* The inputs drawn: raw inputs per tool, the answers of the remote.       *)
(***************************************************************************)
\* r1 @@ r2 for records with distinct fields.
Merge(r1, r2) == [ f \in DOMAIN r1 \cup DOMAIN r2 |-> IF f \in DOMAIN r1 THEN r1[f] ELSE r2[f] ]

NoFields == [ f \in {} |-> RNull ]

\* Nothing, or one field no schema declares.
UnknownOptions == { NoFields, [foo |-> RS(Val("bar", 3))] }

FormatOptions ==
    { NoFields,
      [response_format |-> RS(Lit("markdown"))],
      [response_format |-> RS(Lit("json"))],
      [response_format |-> RS(Lit("xml"))],
      [response_format |-> RInt(1)] }

DateOptions ==
    { NoFields,
      [date |-> RNull],
      [date |-> RS(Lit("2024-03-15"))],
      [date |-> RS(Lit("2024-03-10"))],
      [date |-> RS(Lit("2024-13-40"))],
      [date |-> RStr(1, Lit("2024-03-15"), 2)],
      [date |-> RS(Lit("2024-3-15"))],
      [date |-> RS(Lit("2024-03-15T00:00"))],
      [date |-> RS(Val("tomorrow", 8))],
      [date |-> RInt(20240315)] }

IdOptions(f) ==
    { NoFields,
      [ x \in {f} |-> RS(Lit("task_missing")) ],
      [ x \in {f} |-> RS(Val("id", 12)) ],
      [ x \in {f} |-> RStr(1, Val("id", 12), 1) ],
      [ x \in {f} |-> RS(Val("id", CHARACTER_LIMIT)) ],
      [ x \in {f} |-> RS(EMPTY) ],
      [ x \in {f} |-> RStr(3, EMPTY, 0) ],
      [ x \in {f} |-> RInt(7) ],
      [ x \in {f} |-> RNull ] }

TitleOptions ==
    { NoFields,
      [title |-> RS(Lit("Call dentist ~15 +2024-03-20"))],
      [title |-> RS(Val("title", 1))],
      [title |-> RS(Val("title", 500))],
      [title |-> RStr(1, Val("title", 500), 1)],
      [title |-> RS(Val("title", 501))],
      [title |-> RS(EMPTY)],
      [title |-> RStr(2, EMPTY, 1)],
      [title |-> RInt(5)],
      [title |-> RNull] }

Label == RS(Val("label", 7))

\* Nothing, or one optional field of add-task, valid or not.
AddTaskOptions ==
    { NoFields,
      [note |-> RS(Val("note", 5000))],
      [note |-> RS(Val("note", 5001))],
      [note |-> RStr(2, Val("note", 5000), 2)],
      [note |-> RNull],
      [day |-> RS(Lit("2024-03-15"))],
      [day |-> RS(Lit("2024-13-40"))],
      [day |-> RS(Lit("2024-3-15"))],
      [due_date |-> RS(Lit("2024-03-20"))],
      [due_date |-> RS(Lit("x2024-03-20"))],
      [due_date |-> RS(Lit("20/03/2024"))],
      [parent_id |-> RS(Val("cat", 10))],
      [parent_id |-> RInt(10)],
      [label_ids |-> RList(<<Label, Label>>)],
      [label_ids |-> RList(<<RS(Val("labelB", 7)), Label, RS(Val("labelB", 7))>>)],
      [label_ids |-> RList(<<>>)],
      [note |-> RS(EMPTY)],
      [is_starred |-> RBool(FALSE)],
      [note |-> RS(Val("note", 40)), day |-> RS(Lit("2024-03-15")),
       due_date |-> RS(Lit("2024-03-20")), parent_id |-> RS(Val("cat", 10)),
       label_ids |-> RList(<<Label>>), time_estimate |-> RInt(60000),
       is_starred |-> RBool(TRUE)],
      [label_ids |-> RList(<<RStr(1, Val("label", 7), 1)>>)],
      [label_ids |-> RList([ i \in 1..20 |-> Label ])],
      [label_ids |-> RList([ i \in 1..21 |-> Label ])],
      [label_ids |-> RList(<<RInt(1)>>)],
      [time_estimate |-> RInt(60000)],
      [time_estimate |-> RInt(59999)],
      [time_estimate |-> RInt(86400000)],
      [time_estimate |-> RInt(86400001)],
      [time_estimate |-> RS(Val("soon", 4))],
      [is_starred |-> RBool(TRUE)],
      [is_starred |-> RList(<<>>)],
      [foo |-> RS(Val("bar", 3))] }

Products(A, B) == { Merge(a, b) : a \in A, b \in B }

\* The raw inputs drawn for a tool.
RawInputs(t) ==
    CASE t = "marvin_add_task" -> Products(TitleOptions, AddTaskOptions)
      [] t \in {"marvin_get_todays_tasks", "marvin_get_due_tasks"} ->
            Products(Products(DateOptions, FormatOptions), UnknownOptions)
      [] t \in {"marvin_mark_done", "marvin_start_tracking"} ->
            Products(IdOptions("item_id"), UnknownOptions)
      [] t \in {"marvin_get_categories", "marvin_get_labels"} ->
            Products(FormatOptions, UnknownOptions)
      [] t = "marvin_get_children" ->
            Products(Products(IdOptions("parent_id"), FormatOptions), UnknownOptions)
      [] t = "marvin_stop_tracking" -> { NoFields }

\* The day datetime.now() may name.
Todays == { "2024-03-15" }

\* The day number of 2024-03-15.
RefDay == DaysFromCivil(2024, 3, 15)

\* The remote records drawn: a full task due on the reference day at 09:00,
\* a record without any field, one with a title just short of the character
\* limit, an overdue project, one with falsy values, one due later.
RecordPool ==
    { [ _id |-> Str("id1", 12), title |-> Str("title1", 20), done |-> TRUE,
        dueDate |-> Ts(RefDay, 32400000), timeEstimate |-> 3660000,
        parentId |-> Str("parent1", 10), note |-> Str("note1", 250),
        type |-> Str("task", 4) ],
      [ f \in {} |-> 0 ],
      [ _id |-> Str("id3", 12), title |-> Str("title3", CHARACTER_LIMIT - 100) ],
      [ _id |-> Str("id4", 12), title |-> Str("title4", 8), done |-> FALSE,
        dueDate |-> Ts(RefDay - 5, 36000000), note |-> Str("note4", 150),
        type |-> Str("project", 7) ],
      [ _id |-> Str("id5", 12), title |-> Str("", 0), dueDate |-> Ts(0, 0),
        timeEstimate |-> 0, note |-> Str("", 0), parentId |-> Str("", 0) ],
      [ _id |-> Str("id6", 12), title |-> Str("title6", 8),
        dueDate |-> Ts(RefDay + 3, 0), timeEstimate |-> 30000 ] }

\* The records the remote may answer a creation with, besides the above:
\* the task with its due date as an epoch value, with its due date as the
\* string the request carried, with a scheduled day beyond time_t, with a
\* due date after the year 9999.
CreatedRecords ==
    { [ _id |-> Str("id8", 12), title |-> Str("title8", 28),
        dueDate |-> Ts(DaysFromCivil(2024, 3, 20), 0) ],
      [ _id |-> Str("id8", 12), title |-> Str("title8", 28),
        dueDate |-> Str("2024-03-20", 10) ],
      [ _id |-> Str("id8", 12), title |-> Str("title8", 28), day |-> BeyondTimeT ],
      [ _id |-> Str("id8", 12), title |-> Str("title8", 28),
        dueDate |-> Ts(MAX_DATE_DAY + 1, 0) ] }

\* The lists of at most MaxRecords distinct records.
RecordLists ==
    UNION { { l \in [1..n -> RecordPool] : \A i, j \in 1..n : l[i] = l[j] => i = j }
            : n \in 0..MaxRecords }

StatusCodes == {302, 400, 401, 403, 404, 429, 499, 500, 503}

OkReply(payload) == [kind |-> "ok", payload |-> payload]

StatusReply(status, body) == [kind |-> "status", status |-> status, body |-> body]

RaiseReply(cls, len) == [kind |-> "raise", cls |-> cls, msg |-> len]

FailureReplies ==
    { StatusReply(st, b) : st \in StatusCodes, b \in {"", "{\"error\": \"x\"}"} }
    \cup { RaiseReply(c, 30) : c \in {"ReadTimeout", "ConnectTimeout", "ConnectError",
                                       "ReadError", "JSONDecodeError"} }

\* What the remote may answer to a tool's request.
Replies(t) ==
    FailureReplies
    \cup { OkReply(NullPayload) }
    \cup (IF t \in ListingTools
          THEN { OkReply(ListPayload(l)) : l \in RecordLists }
               \cup { OkReply(DictPayload([error |-> Str("msg", 9)])) }
          ELSE { OkReply(DictPayload(r)) : r \in RecordPool }
               \cup { OkReply(ListPayload(<<>>)) }
               \cup (IF t = "marvin_add_task"
                     THEN { OkReply(DictPayload(r)) : r \in CreatedRecords }
                     ELSE {}))

(***************************************************************************)
(* The gateway: one invocation at a time, from the call to the return.     *)
(***************************************************************************)
NoReply == [kind |-> "none"]

GatewayIdle ==
    /\ pc = "idle"
    /\ tool = "none"
    /\ raw = NoFields
    /\ params = NoFields
    /\ today = ""
    /\ requests = <<>>
    /\ reply = NoReply
    /\ outcome = "none"
    /\ errors = {}
    /\ output = <<>>
    /\ ran = <<>>

\* No invocation runs beside the gateway's own.
NoInvocations ==
    /\ inv = <<>>
    /\ heap = <<>>

Init ==
    /\ srv \in Servers
    /\ GatewayIdle
    /\ NoInvocations
    /\ fn = "none"
    /\ fnArg = <<>>
    /\ fnRet = <<>>

\* A call whose raw input violates the tool's schema: the argument binding
\* raises the validation error and the tool body never runs.
Reject(t, input) ==
    /\ pc = "idle"
    /\ Violations(InputModel(t), input) # {}
    /\ pc' = "done"
    /\ tool' = t
    /\ raw' = input
    /\ errors' = Violations(InputModel(t), input)
    /\ outcome' = "rejected"
    /\ UNCHANGED <<srv, params, today, requests, reply, output, ran, fnVars, concVars>>

\* A call whose raw input conforms: the tool body runs up to its await, the
\* request is on its way.
Call(t, input, now) ==
    /\ pc = "idle"
    /\ Violations(InputModel(t), input) = {}
    /\ pc' = "awaiting"
    /\ tool' = t
    /\ raw' = input
    /\ params' = Params(InputModel(t), input)
    /\ today' = now
    /\ requests' = <<ToolRequest(t, Params(InputModel(t), input), now, srv)>>
    /\ UNCHANGED <<srv, reply, outcome, errors, output, ran, fnVars, concVars>>

\* The remote answers (or the transport fails, or the timeout fires) and the
\* tool body runs to its return.
Respond(rep) ==
    /\ pc = "awaiting"
    /\ LET res == ToolBody(tool, params, today, srv, rep)
       IN  /\ output' = res.output
           /\ ran' = res.ran
    /\ reply' = rep
    /\ requests' = requests \o Retries(requests[1], rep)
    /\ outcome' = "returned"
    /\ pc' = "done"
    /\ UNCHANGED <<srv, tool, raw, params, today, errors, fnVars, concVars>>

RespondOk == \E rep \in Replies(tool) : rep.kind = "ok" /\ Respond(rep)

RespondFailure == \E rep \in Replies(tool) : rep.kind # "ok" /\ Respond(rep)

\* The invocation is over; nothing of it is kept.
Return ==
    /\ pc = "done"
    /\ pc' = "idle"
    /\ tool' = "none"
    /\ raw' = NoFields
    /\ params' = NoFields
    /\ today' = ""
    /\ requests' = <<>>
    /\ reply' = NoReply
    /\ outcome' = "none"
    /\ errors' = {}
    /\ output' = <<>>
    /\ ran' = <<>>
    /\ UNCHANGED <<srv, fnVars, concVars>>

Next ==
    \/ \E t \in Tools : \E input \in RawInputs(t) : Reject(t, input)
    \/ \E t \in Tools : \E input \in RawInputs(t) : \E now \in Todays : Call(t, input, now)
    \/ RespondOk
    \/ RespondFailure
    \/ Return

Spec == Init /\ [][Next]_vars

(***************************************************************************)
(* Properties of the gateway.                                              *)
(***************************************************************************)
\* A raw input violates the schema of tool t: it holds a field the schema
\* does not declare, lacks a required one, or holds a value of the wrong
\* type or outside a length, range or pattern constraint.
SchemaViolated(t, input) ==
    LET model == InputModel(t)
    IN  \/ \E f \in DOMAIN input : f \notin DOMAIN model
        \/ \E f \in DOMAIN model : model[f].req /\ f \notin DOMAIN input
        \/ \E f \in DOMAIN input \cap DOMAIN model : FieldErrors(model[f], input[f]) # {}

C2_EveryErrorReturnedNormalized ==
    (pc = "done" /\ (errors # {} \/ reply.kind \in {"status", "raise"})) =>
        /\ outcome = "returned"
        /\ ran # <<>> /\ ran[Len(ran)] = "normalizer"
        /\ Len(output) >= 2 /\ output[1] = Lit("Error: ")

\* C3: an invocation sends at most one request, and when that request fails
\* (status outside 2xx, timeout, connection failure) the failure is reported
\* to the caller at once: the invocation is over with the normalised error
\* and the one request, no second attempt.
C3_OneRequestNoRetry ==
    /\ Len(requests) <= 1
    /\ reply.kind \in {"status", "raise"} =>
          /\ pc = "done"
          /\ outcome = "returned"
          /\ Len(requests) = 1
          /\ output[1] = Lit("Error: ")

\* C3 witness: the remote answered 503 and the invocation ended with its one
\* request.
C3_Witness ==
    /\ pc = "done"
    /\ reply.kind = "status" /\ reply.status = 503
    /\ Len(requests) = 1
    /\ output = MsgServerError

\* The message the claim assigns to a failure, by status code alone.
MessageByStatus(status, sv) ==
    CASE status = 401 -> MsgInvalidToken(sv)
      [] status = 403 -> MsgPermission(sv)
      [] status = 404 -> MsgNotFound
      [] status = 429 -> MsgRateLimit
      [] status >= 500 -> MsgServerError
      [] OTHER -> <<ERROR_PREFIX, Lit("API request failed with status "),
                    Lit(DecStr(status)), Lit(". Please try again.")>>

\* C5: a remote status error maps by its status code alone: 401, 403, 404,
\* 429 to their messages, 500 and above to the server-unavailable message,
\* every other status to the generic message citing the code; a timeout maps
\* to the timed-out message and a connection failure to the connectivity
\* message.  A 404 from mark-done is the not-found message whatever the body
\* and the item_id.
C5_MessageByStatusAlone ==
    /\ (pc = "done" /\ reply.kind = "status") =>
            output = MessageByStatus(reply.status, srv)
    /\ (pc = "done" /\ reply.kind = "raise"
                    /\ reply.cls \in {"ReadTimeout", "ConnectTimeout"}) =>
            output = MsgTimeout
    /\ (pc = "done" /\ reply.kind = "raise" /\ reply.cls = "ConnectError") =>
            output = MsgConnect
    /\ (pc = "done" /\ tool = "marvin_mark_done" /\ reply.kind = "status"
                    /\ reply.status = 404) =>
            output = <<ERROR_PREFIX,
                       Lit("Resource not found. Please check that the ID is correct and "),
                       Lit("the item still exists in Amazing Marvin.")>>

\* C5 witness: mark-done of "task_missing" was answered 404 with a body.
C5_Witness ==
    /\ pc = "done"
    /\ outcome = "returned"
    /\ tool = "marvin_mark_done"
    /\ params.item_id = Lit("task_missing")
    /\ reply = StatusReply(404, "{\"error\": \"x\"}")
    /\ output = MsgNotFound

\* C6 as claimed: every string a tool returns has at most 25000 characters,
\* on every path.
C6_EveryOutputWithinLimit ==
    (pc = "done" /\ outcome = "returned") => TLen(output) <= CHARACTER_LIMIT

\* C9: when the remote returns an empty collection to one of the five
\* listing tools, the tool returns its zero-result sentence (with the date
\* or the parent id where it has one), whatever the response_format, and
\* neither the renderer nor the truncation guard runs.
C9_EmptyCollectionSentence ==
    (pc = "done" /\ tool \in ListingTools /\ reply = OkReply(ListPayload(<<>>))) =>
        /\ ran = <<>>
        /\ output =
             CASE tool = "marvin_get_todays_tasks" ->
                    <<Lit("No tasks scheduled for "),
                      IF "date" \in DOMAIN params THEN params.date ELSE Lit(today),
                      Lit(".")>>
               [] tool = "marvin_get_due_tasks" ->
                    <<Lit("No due or overdue tasks as of "),
                      IF "date" \in DOMAIN params THEN params.date ELSE Lit(today),
                      Lit(".")>>
               [] tool = "marvin_get_categories" -> <<Lit("No categories or projects found.")>>
               [] tool = "marvin_get_labels" -> <<Lit("No labels found.")>>
               [] tool = "marvin_get_children" ->
                    <<Lit("No items found under parent ID: "), params.parent_id>>

\* C9 witness: the due tasks of a given date were asked for as JSON and the
\* remote returned an empty list.
C9_Witness ==
    /\ pc = "done"
    /\ outcome = "returned"
    /\ tool = "marvin_get_due_tasks"
    /\ params.response_format = "json"
    /\ reply = OkReply(ListPayload(<<>>))
    /\ output = <<Lit("No due or overdue tasks as of "), Lit("2024-03-10"), Lit(".")>>
    /\ ran = <<>>

\* The record without its field f.
Without(rec, f) == [ g \in DOMAIN rec \ {f} |-> rec[g] ]

\* A rendering exposes field f of the i-th record when the document changes
\* once the record lacks the field.
Exposes(fmt, items, i, f) ==
    Rendering(tool, fmt, items, params, today, srv)
        # Rendering(tool, fmt, [items EXCEPT ![i] = Without(items[i], f)], params, today, srv)

\* C10 as claimed: for the same non-empty record set and the same listing
\* tool, the markdown and the JSON rendering expose the same fields of each
\* record (title, identifier, done flag, due date, estimate, parent, type,
\* note).
C10_SameFieldsExposed ==
    (pc = "done" /\ ran = <<"renderer", "truncation">>) =>
        \A i \in 1..Len(reply.payload.items) :
            \A f \in DOMAIN reply.payload.items[i] :
                Exposes("markdown", reply.payload.items, i, f)
                    <=> Exposes("json", reply.payload.items, i, f)

\* The steps an invocation may run after its request, in order: none (the
\* zero-result sentence), the normaliser alone, the renderer and then the
\* truncation guard, or the confirmation of a mutating tool.
StepOrders ==
    { <<>>, <<"normalizer">>, <<"renderer", "truncation">>, <<"confirmation">> }

RequestFailed == reply.kind \in {"status", "raise"}

Ran(step) == \E i \in 1..Len(ran) : ran[i] = step

\* A request is sent only for a validated input, and a tool body that has
\* returned sent exactly one.
ValidationThenRequest ==
    /\ requests # <<>> => (errors = {} /\ outcome # "rejected")
    /\ (pc = "done" /\ outcome = "returned") => Len(requests) = 1

\* C22 as claimed: validation, then the one request, then either the error
\* normaliser or the renderer followed by the truncation guard; the
\* normaliser runs only when the request failed, never after a successful
\* response, and the renderer never runs after a failed request.
C22_NormalizerOnlyAfterFailedRequest ==
    /\ ValidationThenRequest
    /\ (pc = "done" /\ outcome = "returned") =>
          /\ ran \in StepOrders
          /\ Ran("normalizer") => RequestFailed
          /\ RequestFailed => ran = <<"normalizer">>

\* C22 as amended: validation, then the one request, then either the error
\* normaliser or the renderer followed by the truncation guard; after a
\* failed request the normaliser runs and nothing else; after a successful
\* response the normaliser runs only when the step after the response
\* raised, it is then the last step, the truncation guard does not run and
\* the text returned is the unexpected-error message.
C22_NormalizerLastAfterAnyFailure ==
    /\ ValidationThenRequest
    /\ (pc = "done" /\ outcome = "returned") =>
          /\ ran \in StepOrders \cup { <<"renderer", "normalizer">>,
                                       <<"confirmation", "normalizer">> }
          /\ RequestFailed => ran = <<"normalizer">>
          /\ (~RequestFailed /\ Ran("normalizer")) =>
                /\ Len(output) >= 2
                /\ output[1] = Lit("Error: ")
                /\ output[2] = Lit("Unexpected error occurred - ")

\* C22 witness: a listing tool got a successful response that holds an
\* object where the list was expected; the renderer ran, raised, and the
\* normaliser ended the invocation.
C22_Witness ==
    /\ pc = "done"
    /\ tool \in ListingTools
    /\ reply.kind = "ok"
    /\ reply.payload.shape = "dict"
    /\ ran = <<"renderer", "normalizer">>
    /\ output[1] = Lit("Error: ")

\* The other hosting variant.
OtherServer(sv) == IF sv = "env" THEN "session" ELSE "env"

\* Two requests that differ at most in the values of their headers of the
\* same names.
SameApartFromCredential(r1, r2) ==
    /\ r1.url = r2.url
    /\ r1.method = r2.method
    /\ r1.json = r2.json
    /\ r1.query = r2.query
    /\ { h.name : h \in r1.headers } = { h.name : h \in r2.headers }
    /\ { h \in r1.headers : h.name # "X-API-Token" }
          = { h \in r2.headers : h.name # "X-API-Token" }

\* The two variants send the same request for the invocation at hand, apart
\* from the credential.
SameRequests ==
    (pc \in {"awaiting", "done"} /\ requests # <<>>) =>
        /\ requests[1] = ToolRequest(tool, params, today, srv)
        /\ SameApartFromCredential(requests[1],
                                   ToolRequest(tool, params, today, OtherServer(srv)))

\* C28: for every tool, input and answer of the remote the two hosting
\* variants send the same request, apart from where the value of the
\* credential header comes from, and return the same output, apart from the
\* wording of the messages for 401 and 403.
C28_VariantsBehaveAlike ==
    /\ SameRequests
    /\ (pc = "done" /\ outcome = "returned") =>
          LET theirs == ToolBody(tool, params, today, OtherServer(srv), reply)
          IN  /\ ran = theirs.ran
              /\ ~(reply.kind = "status" /\ reply.status \in {401, 403}) =>
                    output = theirs.output

\* C29: the declared hints agree with the requests sent: a tool declared
\* read-only (today's tasks, due tasks, categories, labels, children) only
\* issues GET; a tool that issues a POST is one of add-task, mark-done,
\* start-tracking and stop-tracking and is declared not read-only; no tool
\* is declared destructive.
C29_HintsAgreeWithRequests ==
    /\ \A t \in Tools : ~Annotations(t).destructiveHint
    /\ { t \in Tools : Annotations(t).readOnlyHint } = ListingTools
    /\ \A i \in 1..Len(requests) :
          /\ requests[i].method \in {"GET", "POST"}
          /\ Annotations(tool).readOnlyHint => requests[i].method = "GET"
          /\ requests[i].method = "POST" =>
                /\ tool \in {"marvin_add_task", "marvin_mark_done",
                             "marvin_start_tracking", "marvin_stop_tracking"}
                /\ ~Annotations(tool).readOnlyHint

\* C29 witness: marvin_mark_done, declared not read-only, has posted and
\* returned.
C29_Witness ==
    /\ pc = "done"
    /\ outcome = "returned"
    /\ tool = "marvin_mark_done"
    /\ Len(requests) = 1
    /\ requests[1].method = "POST"
    /\ ~Annotations(tool).readOnlyHint

(***************************************************************************)
(* Properties of the validation layer.                                     *)
(***************************************************************************)
\* The fields of the raw input that the tool's input model does not declare.
UnknownFields == DOMAIN raw \ DOMAIN InputModel(tool)

TextFields == {"title", "note", "day", "due_date", "parent_id", "item_id", "date"}

RequestKey(f) ==
    CASE f = "due_date"  -> "dueDate"
      [] f = "parent_id" -> "parentId"
      [] f = "item_id"   -> "itemId"
      [] f = "date"      -> (IF tool = "marvin_get_due_tasks" THEN "by" ELSE "date")
      [] OTHER           -> f

\* What the one request carries: its JSON body or its query.
Carried == IF requests[1].method = "POST" THEN requests[1].json ELSE requests[1].query

\* The text fields given as strings in the raw input.
GivenTexts == { f \in TextFields \cap DOMAIN raw \cap DOMAIN InputModel(tool) : raw[f].ty = "str" }

\* C17: constraints apply to the trimmed text.  A title or item_id of
\* whitespace only is rejected as too short; a title whose trimmed length is
\* from 1 to 500 draws no violation, whatever surrounds it; and every text
\* the request carries, the labels included, is the trimmed one.
C17_TextTrimmedBeforeChecks ==
    pc # "idle" =>
        /\ \A f \in {"title", "item_id"} \cap GivenTexts :
              raw[f].core.n = 0 =>
                  outcome = "rejected" /\ <<f, "string_too_short">> \in errors
        /\ ("title" \in GivenTexts /\ raw.title.core.n \in 1..500) =>
              \A v \in errors : v[1] # "title"
        /\ requests # <<>> =>
              /\ \A f \in GivenTexts :
                    [key |-> RequestKey(f), val |-> [v |-> raw[f].core]] \in Carried
              /\ ("label_ids" \in DOMAIN raw /\ raw.label_ids.ty = "list") =>
                    [key |-> "labelIds",
                     val |-> [v |-> [ i \in 1..Len(raw.label_ids.items) |->
                                         raw.label_ids.items[i].core ]]] \in Carried

\* C17 witness: a title of 500 characters between a leading and a trailing
\* space was accepted and the request carries the 500 characters.
C17_Witness ==
    /\ pc = "awaiting"
    /\ tool = "marvin_add_task"
    /\ raw.title = RStr(1, Val("title", 500), 1)
    /\ [key |-> "title", val |-> [v |-> Val("title", 500)]] \in requests[1].json

\* The date fields given as strings in the raw input.
InputDateFields == {"day", "due_date", "date"}

GivenDates == { f \in InputDateFields \cap DOMAIN raw \cap DOMAIN InputModel(tool) : raw[f].ty = "str" }

\* Four digits, '-', two digits, '-', two digits, and nothing else.
DateShaped(str) ==
    /\ Len(str) = 10
    /\ \A i \in {1, 2, 3, 4, 6, 7, 9, 10} :
          SubSeq(str, i, i) \in {"0", "1", "2", "3", "4", "5", "6", "7", "8", "9"}
    /\ SubSeq(str, 5, 5) = "-"
    /\ SubSeq(str, 8, 8) = "-"

\* Validation reports nothing about field f.
Accepted(f) == \A v \in errors : v[1] # f

\* C18 as claimed: a date field is accepted exactly when the string given
\* is, over its whole length, four digits, '-', two digits, '-', two digits;
\* any string with other or further characters is rejected.
C18_DateAcceptedIffStringMatches ==
    pc # "idle" =>
        \A f \in GivenDates :
            Accepted(f) <=> /\ raw[f].lead = 0
                            /\ raw[f].trail = 0
                            /\ raw[f].core.k = "lit"
                            /\ DateShaped(raw[f].core.s)

\* C18 as amended: a date field is accepted exactly when the string given,
\* once its surrounding whitespace is removed, is over its whole length four
\* digits, '-', two digits, '-', two digits.  The calendar is not consulted.
C18_DateAcceptedIffTrimmedMatches ==
    pc # "idle" =>
        \A f \in GivenDates :
            Accepted(f) <=> (raw[f].core.k = "lit" /\ DateShaped(raw[f].core.s))

\* C18 witness: the due-task listing accepted 2024-13-40 and asked the
\* remote for it.
C18_Witness ==
    /\ pc = "awaiting"
    /\ tool = "marvin_get_due_tasks"
    /\ "date" \in DOMAIN raw
    /\ raw.date = RS(Lit("2024-13-40"))
    /\ errors = {}
    /\ requests[1].query = { [key |-> "by", val |-> [v |-> Lit("2024-13-40")]] }

\* The optional fields of add-task and the key the body carries each under.
OptionalFields ==
    {"note", "day", "due_date", "parent_id", "label_ids", "time_estimate", "is_starred"}

BodyKey(f) ==
    CASE f = "label_ids"     -> "labelIds"
      [] f = "time_estimate" -> "timeEstimate"
      [] f = "is_starred"    -> "isStarred"
      [] OTHER               -> RequestKey(f)

\* The optional fields the caller provided: given, and not as null.
Provided == { f \in OptionalFields \cap DOMAIN raw : raw[f].ty # "null" }

\* The value the caller gave for a field, texts without the surrounding
\* whitespace, list items in the order given.
GivenValue(f) ==
    CASE raw[f].ty = "str"  -> raw[f].core
      [] raw[f].ty = "int"  -> raw[f].i
      [] raw[f].ty = "bool" -> raw[f].b
      [] raw[f].ty = "list" -> [ i \in 1..Len(raw[f].items) |-> raw[f].items[i].core ]

\* C30: the body of the add-task request always holds title and done =
\* false, and holds note, day, dueDate, parentId, labelIds, timeEstimate and
\* isStarred exactly for the input fields that were provided (given with a
\* value, not null), each with the value given; a field not provided is left
\* out; the label identifiers are sent in the order given, duplicates kept.
C30_BodyHoldsProvidedFields ==
    (pc \in {"awaiting", "done"} /\ tool = "marvin_add_task" /\ requests # <<>>) =>
        LET body == requests[1].json
        IN  /\ { m.key : m \in body } = {"title", "done"} \cup { BodyKey(f) : f \in Provided }
            /\ Cardinality(body) = 2 + Cardinality(Provided)
            /\ [key |-> "title", val |-> [v |-> raw.title.core]] \in body
            /\ [key |-> "done", val |-> [v |-> FALSE]] \in body
            /\ \A f \in Provided :
                  [key |-> BodyKey(f), val |-> [v |-> GivenValue(f)]] \in body

\* C30 witness: three label identifiers, the first given again as the
\* third, are sent as given, and no other optional key is.
C30_Witness ==
    /\ pc = "awaiting"
    /\ tool = "marvin_add_task"
    /\ Provided = {"label_ids"}
    /\ Len(raw.label_ids.items) = 3
    /\ raw.label_ids.items[1] = raw.label_ids.items[3]
    /\ raw.label_ids.items[1] # raw.label_ids.items[2]
    /\ \E m \in requests[1].json :
          /\ m.key = "labelIds"
          /\ m.val.v = <<Val("labelB", 7), Val("label", 7), Val("labelB", 7)>>
    /\ Cardinality(requests[1].json) = 3

(***************************************************************************)
(* Properties of the renderings: what a reader extracts from a document.   *)
(***************************************************************************)
RECURSIVE TextLines(_)
\* The lines of a text.
TextLines(t) ==
    LET nl == { i \in 1..Len(t) : t[i] = NL }
    IN  IF nl = {} THEN <<t>>
        ELSE LET i == CHOOSE j \in nl : \A k \in nl : j <= k
             IN  <<SubSeq(t, 1, i - 1)>> \o TextLines(SubSeq(t, i + 1, Len(t)))

\* The text starts with the pieces of prefix.
StartsWith(t, prefix) == Len(t) >= Len(prefix) /\ SubSeq(t, 1, Len(prefix)) = prefix

\* The text after its first k pieces.
Drop(t, k) == SubSeq(t, k + 1, Len(t))

\* The lines of a document that start with prefix, in order, without it.
LinesAfter(doc, prefix) ==
    LET hits == SelectSeq(TextLines(doc), LAMBDA l : StartsWith(l, prefix))
    IN  [ i \in 1..Len(hits) |-> Drop(hits[i], Len(prefix)) ]

\* The heading lines of a markdown document, in order, without "## ".
Headings(doc) == LinesAfter(doc, <<Lit("## ")>>)

HasGlyph(t) == t \in {"marvin_get_todays_tasks", "marvin_get_due_tasks", "marvin_get_children"}

\* The title a heading shows: what follows the glyph, up to the tag or the
\* parenthesised type.
HeadingTitle(t, h) ==
    LET rest == IF HasGlyph(t) THEN Drop(h, 2) ELSE h
        stop == { i \in 1..Len(rest) :
                    rest[i] \in {Lit(" [OVERDUE]"), Lit(" [DUE TODAY]"), Lit(" (")} }
    IN  IF stop = {} THEN rest
        ELSE SubSeq(rest, 1, (CHOOSE i \in stop : \A j \in stop : i <= j) - 1)

\* The done flag a heading shows: "done", "open", or "none" when the heading
\* has no status glyph.
HeadingDone(t, h) ==
    IF HasGlyph(t) /\ Len(h) >= 1 /\ h[1].k = "chr" /\ h[1].s \in {"done", "open"}
    THEN h[1].s ELSE "none"

\* The identifiers, titles and done flags of the blocks of a markdown
\* document, in order.
MarkdownExtract(t, doc) ==
    LET hs  == Headings(doc)
        ids == LinesAfter(doc, <<Lit("- **ID**: ")>>)
    IN  [ ids   |-> ids,
          titles |-> [ i \in 1..Len(hs) |-> HeadingTitle(t, hs[i]) ],
          done  |-> [ i \in 1..Len(hs) |-> HeadingDone(t, hs[i]) ] ]

\* The value written on a JSON line after its key: null, or the characters
\* of a string, or a literal; the separating comma is not part of it.
JsonLineValue(rest) ==
    LET v == IF rest # <<>> /\ rest[Len(rest)] = Lit(",")
             THEN SubSeq(rest, 1, Len(rest) - 1) ELSE rest
    IN  IF v # <<>> /\ v[1] = QUOTE THEN [null |-> FALSE, text |-> SubSeq(v, 2, Len(v) - 1)]
        ELSE IF v = <<Lit("null")>> THEN [null |-> TRUE, text |-> <<>>]
        ELSE [null |-> FALSE, text |-> v]

\* The values of a key of the per-record objects of a JSON document, in
\* order (the per-record objects are the only ones nested two deep).
JsonValues(doc, key) ==
    LET rests == LinesAfter(doc, <<Lit("      "), QUOTE, Lit(key), QUOTE, Lit(": ")>>)
    IN  [ i \in 1..Len(rests) |-> JsonLineValue(rests[i]) ]

\* The identifiers, titles and done flags of the per-record objects of a
\* JSON document, in order, as a reader of markdown would write them.
JsonExtract(t, doc) ==
    LET ids    == JsonValues(doc, "id")
        titles == JsonValues(doc, "title")
        dones  == JsonValues(doc, "done")
    IN  [ ids    |-> [ i \in 1..Len(ids) |-> ids[i].text ],
          titles |-> [ i \in 1..Len(titles) |-> titles[i].text ],
          done   |-> [ i \in 1..Len(titles) |->
                         IF i > Len(dones) THEN "none"
                         ELSE IF dones[i].text = <<Lit("true")>> THEN "done" ELSE "open" ],
          nulls  |-> { i \in 1..Len(ids) : ids[i].null }
                       \cup { i \in 1..Len(titles) : titles[i].null } ]

\* A listing tool has rendered the list the remote returned.
Rendered == pc = "done" /\ ran = <<"renderer", "truncation">>

Document(fmt) == Rendering(tool, fmt, reply.payload.items, params, today, srv)

\* C11 as claimed: for every listing tool and every record list, the
\* identifiers, titles and done flags extracted from the JSON document equal
\* those of the markdown blocks, in the same order, one per record.
C11_JsonExtractEqualsMarkdownBlocks ==
    Rendered =>
        LET md == MarkdownExtract(tool, Document("markdown"))
            js == JsonExtract(tool, Document("json"))
        IN  /\ Len(md.ids) = Len(reply.payload.items)
            /\ Len(js.ids) = Len(reply.payload.items)
            /\ js.nulls = {}
            /\ js.ids = md.ids
            /\ js.titles = md.titles
            /\ js.done = md.done

\* The k-th smallest element of a set of numbers.
Nth(S, k) == CHOOSE x \in S : Cardinality({ y \in S : y < x }) = k - 1

\* The lines of the k-th per-record object of a JSON document, without its
\* braces.
JsonObjectLines(doc, k) ==
    LET ls     == TextLines(doc)
        starts == { i \in 1..Len(ls) : ls[i] = <<Lit("    "), Lit("{")>> }
        ends   == { i \in 1..Len(ls) : StartsWith(ls[i], <<Lit("    "), Lit("}")>>) }
    IN  SubSeq(ls, Nth(starts, k) + 1, Nth(ends, k) - 1)

\* The values the k-th per-record object holds under a key: none or one.
JsonObjectValues(doc, k, key) ==
    LET prefix == <<Lit("      "), QUOTE, Lit(key), QUOTE, Lit(": ")>>
        ls     == JsonObjectLines(doc, k)
    IN  { JsonLineValue(Drop(ls[i], Len(prefix))).text :
            i \in { j \in 1..Len(ls) : StartsWith(ls[j], prefix) } }

\* The tags the k-th heading of a markdown document carries.
HeadingTags(doc, k) ==
    LET h == Headings(doc)[k]
    IN  { h[i].s : i \in { j \in 1..Len(h) : h[j] \in {Lit(" [OVERDUE]"), Lit(" [DUE TODAY]")} } }

\* The whole days from the record's due date to the reference date: both
\* are dates of the local calendar.
DateDifference(task) == StrptimeDay(TargetDate(params, today)) - task.dueDate.d

\* C12 as claimed: in the rendering of due tasks, a record whose due date
\* lies a positive number of days before the reference date gets
\* "[OVERDUE]" in markdown and daysOverdue, that number, in JSON; a record
\* whose due date is the reference date gets "[DUE TODAY]" in markdown and
\* no daysOverdue; a record due later gets neither.
C12_OverdueByDateDifference ==
    (Rendered /\ tool = "marvin_get_due_tasks") =>
        \A k \in 1..Len(reply.payload.items) :
            LET task == reply.payload.items[k]
                tags == HeadingTags(Document("markdown"), k)
                days == JsonObjectValues(Document("json"), k, "daysOverdue")
            IN  TruthyTs(task, "dueDate") =>
                  /\ DateDifference(task) > 0 =>
                        tags = {" [OVERDUE]"} /\ days = { <<Lit(DecStr(DateDifference(task)))>> }
                  /\ DateDifference(task) = 0 =>
                        tags = {" [DUE TODAY]"} /\ days = {}
                  /\ DateDifference(task) < 0 =>
                        tags = {} /\ days = {}

\* Some line of the text is the given one / starts with the given pieces.
HasLine(text, line) == \E i \in 1..Len(TextLines(text)) : TextLines(text)[i] = line

HasLineStarting(text, prefix) ==
    \E i \in 1..Len(TextLines(text)) : StartsWith(TextLines(text)[i], prefix)

\* C13 as claimed: after a successful POST to create-task the returned
\* markdown holds the lines "**ID**: <id>" and "**Title**: <title>" with the
\* values of the remote response, the title as it came, and a "**Due**: "
\* line whenever the response includes a dueDate.
C13_ConfirmationLines ==
    (pc = "done" /\ tool = "marvin_add_task" /\ reply.kind = "ok"
                 /\ reply.payload.shape = "dict") =>
        LET result == reply.payload.rec
        IN  /\ Has(result, "_id") =>
                  HasLine(output, <<Lit("**ID**: ")>> \o StrTxt(result._id))
            /\ Has(result, "title") =>
                  HasLine(output, <<Lit("**Title**: ")>> \o StrTxt(result.title))
            /\ Has(result, "dueDate") =>
                  HasLineStarting(output, <<Lit("**Due**: ")>>)

\* C26: in marvin_get_due_tasks every date that validation accepted leads,
\* on a successful response holding a non-empty list of records, to the
\* rendered listing and never to an error text: the parse of the reference
\* date accepts every date that validation accepts.
C26_AcceptedDateRenders ==
    (/\ pc = "done"
     /\ outcome = "returned"
     /\ tool = "marvin_get_due_tasks"
     /\ reply.kind = "ok"
     /\ reply.payload.shape = "list"
     /\ reply.payload.items # <<>>
     /\ RenderingRaises(tool, reply.payload.items) = "") =>
        /\ ~StrptimeRaises(TargetDate(params, today))
        /\ ran = <<"renderer", "truncation">>
        /\ ~Ran("normalizer")
        /\ ~StartsWith(output, <<Lit("Error: ")>>)

\* The keys every per-record JSON object of a listing holds, in order.
FixedKeys(t) ==
    CASE t = "marvin_get_todays_tasks" ->
            <<"id", "title", "done", "dueDate", "timeEstimate", "parentId", "note">>
      [] t = "marvin_get_due_tasks" ->
            <<"id", "title", "done", "dueDate", "timeEstimate">>
      [] t = "marvin_get_categories" -> <<"id", "title", "type", "parentId", "note">>
      [] t = "marvin_get_labels" -> <<"id", "title">>
      [] t = "marvin_get_children" ->
            <<"id", "title", "type", "done", "dueDate", "timeEstimate", "note">>

\* The per-record objects of a JSON document, in order, each as the
\* sequence of its members: the key and the value written on each line.
JsonObjects(doc) ==
    LET ls     == TextLines(doc)
        starts == { i \in 1..Len(ls) : ls[i] = <<Lit("    "), Lit("{")>> }
        ends   == { i \in 1..Len(ls) : StartsWith(ls[i], <<Lit("    "), Lit("}")>>) }
    IN  [ k \in 1..Cardinality(starts) |->
            [ i \in 1..(Nth(ends, k) - Nth(starts, k) - 1) |->
                [ key |-> ls[Nth(starts, k) + i][3].s,
                  val |-> JsonLineValue(Drop(ls[Nth(starts, k) + i], 5)) ] ] ]

\* The keys of an object, in order.
ObjectKeys(obj) == [ i \in 1..Len(obj) |-> obj[i].key ]

\* The keys other than daysOverdue.
FixedPart(keys) == SelectSeq(keys, LAMBDA x : x # "daysOverdue")

\* The record field a key shows.
FieldOfKey(key) == IF key = "id" THEN "_id" ELSE key

\* The keys of the object of a record are the fixed ones; daysOverdue, if
\* there, is in the due-task listing, on a record due before the reference
\* date.
KeysFixed(obj, task) ==
    LET keys == ObjectKeys(obj)
    IN  /\ FixedPart(keys) = FixedKeys(tool)
        /\ Len(keys) <= Len(FixedKeys(tool)) + 1
        /\ keys # FixedPart(keys) =>
              /\ tool = "marvin_get_due_tasks"
              /\ TruthyTs(task, "dueDate")
              /\ DateDifference(task) > 0

\* The members of an object that show a field the record does not carry.
AbsentMembers(obj, task) ==
    { obj[i] : i \in { j \in 1..Len(obj) :
                         obj[j].key # "daysOverdue" /\ ~Has(task, FieldOfKey(obj[j].key)) } }

\* C21 as claimed: in JSON mode every per-record object of a listing holds
\* the same fixed keys whatever the record carries, each absent field shown
\* as null; only daysOverdue, in the due-task listing, is conditional, there
\* only for an overdue record.
C21_FixedKeysAbsentNull ==
    Rendered =>
        LET objs == JsonObjects(Document("json"))
        IN  /\ Len(objs) = Len(reply.payload.items)
            /\ \A k \in 1..Len(objs) :
                  /\ KeysFixed(objs[k], reply.payload.items[k])
                  /\ \A m \in AbsentMembers(objs[k], reply.payload.items[k]) : m.val.null

\* C21 as amended: the same, an absent done flag being shown as false and
\* every other absent field as null.
C21_FixedKeysAbsentNullOrFalse ==
    Rendered =>
        LET objs == JsonObjects(Document("json"))
        IN  /\ Len(objs) = Len(reply.payload.items)
            /\ \A k \in 1..Len(objs) :
                  /\ KeysFixed(objs[k], reply.payload.items[k])
                  /\ \A m \in AbsentMembers(objs[k], reply.payload.items[k]) :
                        IF m.key = "done"
                        THEN m.val = [null |-> FALSE, text |-> <<Lit("false")>>]
                        ELSE m.val.null

\* C21 witness: today's tasks listed a record without any field beside a
\* record with all of them, and both objects hold the seven keys.
C21_Witness ==
    /\ Rendered
    /\ tool = "marvin_get_todays_tasks"
    /\ Len(reply.payload.items) = 2
    /\ DOMAIN reply.payload.items[1] = {}
    /\ Has(reply.payload.items[2], "note")
    /\ ObjectKeys(JsonObjects(Document("json"))[1]) = FixedKeys(tool)
    /\ ObjectKeys(JsonObjects(Document("json"))[2]) = FixedKeys(tool)

\* The text is one JSON object as json.dumps(..., indent=2) writes it: it
\* opens with "{", ends with "}", and is the whole of the document built.
SingleJsonObject(text, doc) ==
    LET ls == TextLines(text)
    IN  /\ Len(ls) >= 2
        /\ ls[1] = <<Lit("{")>>
        /\ ls[Len(ls)] = <<Lit("}")>>
        /\ text = doc

\* The values of the top-level key total of a JSON text.
Totals(text) ==
    LET rests == LinesAfter(text, <<Lit("  "), QUOTE, Lit("total"), QUOTE, Lit(": ")>>)
    IN  [ i \in 1..Len(rests) |-> JsonLineValue(rests[i]).text ]

\* C27: in JSON mode, for a non-empty list of records of any size, the text
\* returned is a single well-formed JSON object, its total the number of
\* records returned, also when the serialization is longer than 25000
\* characters.
C27_JsonOutputWellFormed ==
    (Rendered /\ params.response_format = "json") =>
        /\ SingleJsonObject(output, Document("json"))
        /\ Totals(output) = << <<Lit(DecStr(Len(reply.payload.items)))>> >>
        /\ Len(JsonObjects(output)) = Len(reply.payload.items)

\* The same for the documents the truncation guard leaves whole.
C27_ShortJsonOutputWellFormed ==
    (Rendered /\ params.response_format = "json"
              /\ TLen(Document("json")) <= CHARACTER_LIMIT) =>
        /\ SingleJsonObject(output, Document("json"))
        /\ Totals(output) = << <<Lit(DecStr(Len(reply.payload.items)))>> >>
        /\ Len(JsonObjects(output)) = Len(reply.payload.items)

(***************************************************************************)
(* The error normaliser on its own: Init draws an exception and a server, *)
(* Normalize applies the normaliser.                                       *)


(***************************************************************************)
\* Length of the longest str(e) drawn, from the empty one on.
MaxMsgLen == 2

NormalizeClasses ==
    { "TimeoutException", "ConnectTimeout", "ReadTimeout", "WriteTimeout",
      "PoolTimeout", "ConnectError", "ReadError", "NetworkError",
      "TransportError", "RequestError", "HTTPError", "ValueError",
      "JSONDecodeError", "AttributeError", "TypeError", "KeyError",
      "OverflowError", "Exception" }

\* Every status raise_for_status raises for, and a few no server sends.
NormalizeStatuses == (100..199) \cup (300..599) \cup {0, 600, 999}

NormalizeExceptions ==
    { StatusExc(st, b) : st \in NormalizeStatuses, b \in {"", "{}"} }
    \cup { Exc(c, n) : c \in NormalizeClasses, n \in 0..MaxMsgLen }

InitNormalize ==
    /\ GatewayIdle
    /\ NoInvocations
    /\ srv = "env"
    /\ fn = "call"
    /\ fnArg \in [e : NormalizeExceptions, sv : Servers]
    /\ fnRet = <<>>

Normalize ==
    /\ fn = "call"
    /\ fn' = "normalize"
    /\ fnRet' = _handle_api_error(fnArg.e, fnArg.sv)
    /\ UNCHANGED <<fnArg, gatewayVars, concVars>>

NextNormalize == Normalize

SpecNormalize == InitNormalize /\ [][NextNormalize]_vars

\* C4: normalize is total: for every exception it returns a text, the text
\* is not empty and it starts with "Error: ".
C4_NormalizeTotalAndPrefixed ==
    fn = "normalize" =>
        /\ Len(fnRet) >= 2
        /\ TLen(fnRet) > TLen(<<ERROR_PREFIX>>)
        /\ fnRet[1] = Lit("Error: ")
        /\ \A i \in 1..Len(fnRet) : fnRet[i].n > 0

\* C4 witness: the normaliser has run on an exception of no class it names,
\* whose str() is empty.
C4_Witness ==
    /\ fn = "normalize"
    /\ fnArg.e.cls = "KeyError"
    /\ fnArg.e.msg = 0
    /\ fnRet[1] = Lit("Error: ")

(***************************************************************************)
(* The truncation guard on its own: Init draws a text, Bound applies the   *)
(* guard to it.                                                            *)
(***************************************************************************)
\* Pieces whose lengths put the text's length and its newlines on either
\* side of CHARACTER_LIMIT.
BoundPieces ==
    {NL} \cup { Val("x", n) : n \in {1, CHARACTER_LIMIT \div 2 - 1, CHARACTER_LIMIT \div 2,
                                     CHARACTER_LIMIT - 1, CHARACTER_LIMIT} }

BoundTexts == UNION { [1..m -> BoundPieces] : m \in 0..MaxPieces }

InitBound ==
    /\ GatewayIdle
    /\ NoInvocations
    /\ srv = "env"
    /\ fn = "call"
    /\ fnArg \in BoundTexts
    /\ fnRet = <<>>

Bound ==
    /\ fn = "call"
    /\ fn' = "truncate"
    /\ fnRet' = _truncate_response(fnArg)
    /\ UNCHANGED <<fnArg, gatewayVars, concVars>>

NextBound == Bound

SpecBound == InitBound /\ [][NextBound]_vars

(***************************************************************************)
(* Properties of the truncation guard.                                     *)
(***************************************************************************)
\* The 0-based indexes of the newline characters of a text.
NewlineIndexes(t) ==
    { TLen(SubSeq(t, 1, i - 1)) : i \in { j \in 1..Len(t) : t[j].k = "nl" } }

SetMax(S) == CHOOSE x \in S : \A y \in S : y <= x

\* Where a text longer than the limit is to be cut: just before the last
\* newline among its first CHARACTER_LIMIT characters when that newline is
\* at an index greater than 0, at CHARACTER_LIMIT otherwise.
CutPoint(t) ==
    LET cands == { i \in NewlineIndexes(t) : 0 < i /\ i < CHARACTER_LIMIT }
    IN  IF cands = {} THEN CHARACTER_LIMIT ELSE SetMax(cands)

\* C7: bound returns its input unchanged whenever the input has at most
\* 25000 characters, exactly 25000 included; no notice is appended.
C7_ShortTextUnchanged ==
    (fn = "truncate" /\ TLen(fnArg) <= CHARACTER_LIMIT) => fnRet = fnArg

\* C7 witness: the guard has run on a text of exactly 25000 characters.
C7_Witness ==
    fn = "truncate" /\ TLen(fnArg) = CHARACTER_LIMIT /\ fnRet = fnArg

\* C8: for a text longer than 25000 characters bound returns P followed by
\* the notice, P being the first 25000 characters cut back to just before
\* their last newline when that newline is at an index greater than 0.  P is
\* a prefix of the input, the character after P is a newline whenever P was
\* cut back, the notice starts with a blank-line separator, holds "Response
\* Truncated" and the original length, and the result is at most 25000 plus
\* the notice's length long.
C8_LongTextCutAtLineBoundary ==
    (fn = "truncate" /\ TLen(fnArg) > CHARACTER_LIMIT) =>
        LET cut    == CutPoint(fnArg)
            P      == Take(fnArg, cut)
            notice == SubSeq(fnRet, Len(P) + 1, Len(fnRet))
        IN  /\ Len(fnRet) >= Len(P) + 2
            /\ SubSeq(fnRet, 1, Len(P)) = P
            /\ TLen(P) = cut
            /\ cut < CHARACTER_LIMIT => Take(fnArg, cut + 1) = P \o <<NL>>
            /\ notice = TruncationNotice(TLen(fnArg))
            /\ notice[1] = NL /\ notice[2] = NL
            /\ \E i \in 1..Len(notice) : notice[i] = Lit("Response Truncated")
            /\ \E i \in 1..Len(notice) : notice[i] = Lit(CommaStr(TLen(fnArg)))
            /\ TLen(fnRet) <= CHARACTER_LIMIT + TLen(notice)

\* C8 witness: a text longer than the limit was cut back to a newline that
\* lies strictly inside its first 25000 characters.
C8_Witness ==
    /\ fn = "truncate"
    /\ TLen(fnArg) > CHARACTER_LIMIT
    /\ CutPoint(fnArg) < CHARACTER_LIMIT - 1
    /\ TLen(fnRet) = CutPoint(fnArg) + TLen(TruncationNotice(TLen(fnArg)))


(***************************************************************************)
(* Concurrent invocations: the event loop runs several tool bodies, each   *)
(* from its call to its return, and switches between them at their awaits. *)
(***************************************************************************)
\* Most invocations in flight at once.
MaxConcurrent == 2

\* The calls drawn: a creation, a listing, a completion, a stop.
ConcurrentCalls ==
    { [tool |-> "marvin_add_task", raw |-> [title |-> RS(Val("title", 1))]],
      [tool |-> "marvin_get_todays_tasks", raw |-> NoFields],
      [tool |-> "marvin_mark_done", raw |-> [item_id |-> RS(Val("id", 12))]],
      [tool |-> "marvin_stop_tracking", raw |-> NoFields] }

\* What the remote may answer to each of them.
ConcurrentReplies(t) ==
    { StatusReply(404, ""), RaiseReply("ReadTimeout", 30) }
    \cup (IF t \in ListingTools
          THEN { OkReply(ListPayload(<<r>>)) : r \in { x \in RecordPool : Has(x, "type") } }
          ELSE { OkReply(DictPayload(r)) : r \in { x \in RecordPool : Has(x, "type") } })

IdleInvocation == [pc |-> "idle"]

InitConcurrent ==
    /\ srv \in Servers
    /\ GatewayIdle
    /\ fn = "none"
    /\ fnArg = <<>>
    /\ fnRet = <<>>
    /\ inv = [ i \in 1..MaxConcurrent |-> IdleInvocation ]
    /\ heap = <<>>

\* Invocation i is called with a conforming input and runs to the entry of
\* the client's context: it holds its own url and its own headers.
Enter(i, c, now) ==
    /\ inv[i].pc = "idle"
    /\ Violations(InputModel(c.tool), c.raw) = {}
    /\ LET made == NewHeaders(heap, srv)
       IN  /\ heap' = made.heap
           /\ inv' = [inv EXCEPT ![i] =
                        [ pc |-> "entered", tool |-> c.tool,
                          params |-> Params(InputModel(c.tool), c.raw),
                          now |-> now, headers |-> made.ref ]]
    /\ UNCHANGED <<gatewayVars, fnVars>>

\* Invocation i resumes: a POST sets the content type on its headers, then
\* the request leaves with the headers as they are at that moment, and the
\* invocation awaits the response.
Send(i) ==
    /\ inv[i].pc = "entered"
    /\ LET alone == ToolRequest(inv[i].tool, inv[i].params, inv[i].now, srv)
           h == IF alone.method = "POST"
                THEN SetContentType(heap, inv[i].headers)
                ELSE heap
       IN  /\ heap' = h
           /\ inv' = [inv EXCEPT ![i] =
                        [ pc |-> "awaiting", tool |-> @.tool, params |-> @.params,
                          now |-> @.now, headers |-> @.headers,
                          request |-> [alone EXCEPT !.headers = h[inv[i].headers]] ]]
    /\ UNCHANGED <<gatewayVars, fnVars>>

\* The response to invocation i's request arrives (or its timeout fires) and
\* its tool body runs to its return.
Receive(i, rep) ==
    /\ inv[i].pc = "awaiting"
    /\ inv' = [inv EXCEPT ![i] =
                 [ pc |-> "done", tool |-> @.tool, params |-> @.params,
                   now |-> @.now, headers |-> @.headers, request |-> @.request,
                   reply |-> rep,
                   output |-> ToolBody(@.tool, @.params, @.now, srv, rep).output ]]
    /\ UNCHANGED <<heap, gatewayVars, fnVars>>

NextConcurrent ==
    \/ \E i \in 1..MaxConcurrent : \E c \in ConcurrentCalls : \E now \in Todays :
          Enter(i, c, now)
    \/ \E i \in 1..MaxConcurrent : Send(i)
    \/ \E i \in 1..MaxConcurrent :
          /\ inv[i].pc = "awaiting"
          /\ \E rep \in ConcurrentReplies(inv[i].tool) : Receive(i, rep)

SpecConcurrent == InitConcurrent /\ [][NextConcurrent]_vars

ContentType == [name |-> "Content-Type", value |-> "application/json"]

\* C14: whatever the interleaving, the request of every invocation (URL,
\* method, headers, body, query) is the one it issues running alone, a GET
\* never carries the content type a concurrent POST set, and the output of
\* every invocation is the one it returns running alone on the same
\* response.
C14_InvocationsIsolated ==
    \A i \in DOMAIN inv :
        /\ inv[i].pc \in {"awaiting", "done"} =>
              /\ inv[i].request
                    = ToolRequest(inv[i].tool, inv[i].params, inv[i].now, srv)
              /\ inv[i].request.method = "GET"
                    => ContentType \notin inv[i].request.headers
        /\ inv[i].pc = "done" =>
              inv[i].output
                  = ToolBody(inv[i].tool, inv[i].params, inv[i].now, srv,
                             inv[i].reply).output

\* A POST entered first and set its content type, a GET entered after it,
\* was sent and has returned while the POST still awaits its response.
C14_Witness ==
    /\ Len(inv) >= 2
    /\ inv[1].pc = "awaiting"
    /\ inv[1].request.method = "POST"
    /\ inv[1].headers = 1
    /\ inv[2].pc = "done"
    /\ inv[2].request.method = "GET"
    /\ inv[2].headers = 2
    /\ ContentType \in heap[1]
    /\ ContentType \notin heap[2]


(***************************************************************************)
(* Termination.  The remote answers, the transport fails or the client's   *)
(* timeout=30.0 fires: one of them always ends the await, and a finished   *)
(* invocation is always handed back to its caller.                         *)
(***************************************************************************)
SpecLive ==
    /\ Init
    /\ [][Next]_vars
    /\ WF_vars(RespondOk \/ RespondFailure)
    /\ WF_vars(Return)

\* An invocation whose tool body runs suspends on its one request and then
\* ends with a returned text.
AwaitEndsWithText ==
    /\ [](pc = "awaiting" => Len(requests) = 1)
    /\ (pc = "awaiting") ~> (pc = "done" /\ outcome = "returned" /\ output # <<>>)

\* A fired timeout ends the invocation with the timed-out error string, made
\* by the error normaliser.
TimeoutReturnsMessage ==
    [](reply.kind = "raise" =>
          (reply.cls \in {"ReadTimeout", "ConnectTimeout"} =>
              /\ pc = "done"
              /\ outcome = "returned"
              /\ output = MsgTimeout
              /\ ran # <<>> /\ ran[Len(ran)] = "normalizer"))

\* C15 as claimed: every invocation ends with a returned text, none with
\* anything else; an invocation that suspends does so on its one request and
\* then returns; a fired timeout gives the timed-out error string through
\* the error normaliser.
C15_EveryInvocationReturnsText ==
    /\ [](pc = "done" => outcome = "returned")
    /\ AwaitEndsWithText
    /\ TimeoutReturnsMessage

(***************************************************************************)
(* The formatters on their own: _format_time_estimate and                  *)
(* _format_timestamp applied to one value each.                            *)
(***************************************************************************)
\* Most whole hours in a duration drawn from the grid.
MaxHours == 3

\* The durations drawn, in milliseconds: around every boundary of the
\* minute and of the hour up to MaxHours, a day, the largest 32-bit value.
DurationValues ==
    { h * 3600000 + m * 60000 + r : h \in 0..MaxHours, m \in {0, 1, 59}, r \in {0, 1, 59999} }
    \cup { 30000, 86400000, 2147483647 }

\* The local dates drawn.
CivilDates ==
    { <<1969, 12, 31>>, <<1970, 1, 1>>, <<1970, 1, 2>>, <<1999, 12, 31>>,
      <<2000, 2, 29>>, <<2023, 2, 28>>, <<2024, 2, 29>>, <<2024, 3, 15>>,
      <<2024, 12, 31>>, <<2100, 3, 1>>, <<9999, 12, 31>> }

\* The timestamps drawn: each date at its first, second and last
\* millisecond (the epoch itself, 0, among them), the day after 9999-12-31,
\* a number beyond time_t.
TimestampValues ==
    { Ts(DaysFromCivil(c[1], c[2], c[3]), ms) : c \in CivilDates, ms \in {0, 1, 86399999} }
    \cup { Ts(MAX_DATE_DAY + 1, 0), BeyondTimeT }

\* A call of a formatter on a record's field, present or absent.
FormatCalls ==
    { [name |-> "_format_time_estimate", rec |-> [timeEstimate |-> ms]] : ms \in DurationValues }
    \cup { [name |-> "_format_timestamp", rec |-> [dueDate |-> ts]] : ts \in TimestampValues }
    \cup { [name |-> n, rec |-> [ f \in {} |-> 0 ]]
             : n \in {"_format_time_estimate", "_format_timestamp"} }

InitFormat ==
    /\ GatewayIdle
    /\ NoInvocations
    /\ srv = "env"
    /\ fn = "call"
    /\ fnArg \in FormatCalls
    /\ fnRet = <<>>

FormatEstimate ==
    /\ fn = "call"
    /\ fnArg.name = "_format_time_estimate"
    /\ fn' = "estimate"
    /\ fnRet' = _format_time_estimate(fnArg.rec, "timeEstimate")
    /\ UNCHANGED <<fnArg, gatewayVars, concVars>>

\* _format_timestamp returns its text, or lets an exception through.
FormatTimestamp ==
    /\ fn = "call"
    /\ fnArg.name = "_format_timestamp"
    /\ IF FormatTimestampRaises(fnArg.rec, "dueDate") # ""
       THEN /\ fn' = "raised"
            /\ fnRet' = <<Lit(FormatTimestampRaises(fnArg.rec, "dueDate"))>>
       ELSE /\ fn' = "timestamp"
            /\ fnRet' = _format_timestamp(fnArg.rec, "dueDate")
    /\ UNCHANGED <<fnArg, gatewayVars, concVars>>

NextFormat ==
    \/ FormatEstimate
    \/ FormatTimestamp

SpecFormat == InitFormat /\ [][NextFormat]_vars

\* The characters of a text made of literal pieces.
RECURSIVE Shown(_)
Shown(text) == IF text = <<>> THEN "" ELSE Head(text).s \o Shown(Tail(text))

\* C19: the duration formatter returns exactly one text for an absent
\* duration and for every duration of 0 ms or more: "Not set" for absent
\* and 0, "< 1m" below a minute, otherwise X hours and Y minutes with
\* X = ms div 3600000 and Y = (ms mod 3600000) div 60000, the zero one left
\* out; 30000 gives "< 1m", 3660000 gives "1h 1m", 7200000 gives "2h".
C19_FormatDurationTotal ==
    fn = "estimate" =>
        LET absent == ~Has(fnArg.rec, "timeEstimate")
            ms     == IF absent THEN 0 ELSE fnArg.rec.timeEstimate
            X      == ms \div 3600000
            Y      == (ms % 3600000) \div 60000
            got    == Shown(fnRet)
        IN  /\ fnRet # <<>>
            /\ (absent \/ ms = 0) => got = "Not set"
            /\ (0 < ms /\ ms < 60000) => got = "< 1m"
            /\ (ms >= 60000 /\ X > 0 /\ Y > 0) => got = DecStr(X) \o "h " \o DecStr(Y) \o "m"
            /\ (ms >= 60000 /\ X > 0 /\ Y = 0) => got = DecStr(X) \o "h"
            /\ (ms >= 60000 /\ X = 0) => got = DecStr(Y) \o "m"
            /\ ms = 30000 => got = "< 1m"
            /\ ms = 3660000 => got = "1h 1m"
            /\ ms = 7200000 => got = "2h"

\* C19 witness: 3660000 ms was formatted as "1h 1m".
C19_Witness ==
    /\ fn = "estimate"
    /\ fnArg.rec = [timeEstimate |-> 3660000]
    /\ fnRet = <<Lit("1"), Lit("h "), Lit("1"), Lit("m")>>

\* The local dates written by hand, for the days drawn.
DateText(c) == Pad4(c[1]) \o "-" \o Pad2(c[2]) \o "-" \o Pad2(c[3])

\* C20 as claimed: the date formatter never raises; for an absent value, for
\* 0 and for a value whose date is out of range (after the year 9999, or
\* beyond what the platform's clock type holds) it returns "Not set", and
\* for every other value the local date as YYYY-MM-DD.
C20_FormatDateNeverRaises ==
    (fn \in {"timestamp", "raised"}) =>
        LET absent     == ~Has(fnArg.rec, "dueDate")
            ts         == fnArg.rec.dueDate
            zero       == ts = Ts(0, 0)
            outOfRange == ts = BeyondTimeT \/ (IsEpoch(ts) /\ ts.d > MAX_DATE_DAY)
        IN  /\ fn # "raised"
            /\ (absent \/ zero \/ outOfRange) => Shown(fnRet) = "Not set"
            /\ ~absent =>
                  \A c \in CivilDates :
                      (IsEpoch(ts) /\ ~zero /\ ts.d = DaysFromCivil(c[1], c[2], c[3]))
                          => Shown(fnRet) = DateText(c)

(***************************************************************************)
(* The renderer on its own: a listing tool's body from a successful        *)
(* response that holds one record.                                         *)
(***************************************************************************)
\* A record that carries every field the renderer reads: overdue by five
\* days on the reference day, with a note longer than any note line.
FullRecord ==
    [ _id |-> Str("id1", 12), title |-> Str("title1", 20), done |-> TRUE,
      dueDate |-> Ts(RefDay - 5, 36000000), timeEstimate |-> 3660000,
      parentId |-> Str("parent1", 10), note |-> Str("note1", 250),
      type |-> Str("task", 4) ]

\* The record with any subset of its fields absent.
SubsetRecords == { [ f \in S |-> FullRecord[f] ] : S \in SUBSET DOMAIN FullRecord }

\* Notes around the two lengths a note line keeps.
NoteLengths == {0, 1, 149, 150, 151, 199, 200, 201, 5000}

NoteRecords == { [FullRecord EXCEPT !.note = Str("note1", n)] : n \in NoteLengths }

\* Most days between a due date drawn and the reference day.
MaxDaysApart == 2

\* Due dates around the reference day, at the first, the second and the
\* last millisecond of their day.
DueRecords ==
    { [FullRecord EXCEPT !.dueDate = Ts(RefDay + o, ms)] :
        o \in (0 - MaxDaysApart)..MaxDaysApart, ms \in {0, 1, 86399999} }

RenderCalls ==
    [ t : ListingTools, fmt : ResponseFormats, sv : Servers,
      rec : SubsetRecords \cup NoteRecords \cup DueRecords ]

\* The validated input of the call: the format, no date (the reference day
\* is today), the parent for the children listing.
RenderParams(c) ==
    IF c.t = "marvin_get_children"
    THEN [response_format |-> c.fmt, parent_id |-> Val("id", 12)]
    ELSE [response_format |-> c.fmt]

InitRender ==
    /\ GatewayIdle
    /\ NoInvocations
    /\ srv = "env"
    /\ fn = "call"
    /\ fnArg \in RenderCalls
    /\ fnRet = <<>>

Render ==
    /\ fn = "call"
    /\ fn' = "rendered"
    /\ fnRet' = ListingBody(fnArg.t, RenderParams(fnArg), "2024-03-15", fnArg.sv,
                            OkReply(ListPayload(<<fnArg.rec>>)))
    /\ UNCHANGED <<fnArg, gatewayVars, concVars>>

NextRender == Render

SpecRender == InitRender /\ [][NextRender]_vars

\* The lines of the rendered text that start with prefix, without it.
RenderedLines(prefix) == LinesAfter(fnRet.output, prefix)

\* C23: whichever fields a record lacks, the listing is rendered in both
\* formats (no error text, the renderer then the truncation guard); in
\* markdown the heading shows "Untitled" for an absent title and the title
\* otherwise, the due line of the due-task listing shows "Not set" for an
\* absent due date, and today's tasks and the children listing leave the due
\* line out; in JSON the record has its one object.
C23_AbsentFieldsDegrade ==
    fn = "rendered" =>
        LET rec == fnArg.rec
            t   == fnArg.t
        IN  /\ fnRet.ran = <<"renderer", "truncation">>
            /\ fnRet.output # <<>>
            /\ fnRet.output[1] # Lit("Error: ")
            /\ fnArg.fmt = "markdown" =>
                  /\ Len(Headings(fnRet.output)) = 1
                  /\ HeadingTitle(t, Headings(fnRet.output)[1])
                        = (IF Has(rec, "title") THEN StrTxt(rec.title) ELSE Txt("Untitled"))
                  /\ ~Has(rec, "dueDate") =>
                        RenderedLines(<<Lit("- **Due**: ")>>)
                            = (IF t = "marvin_get_due_tasks" THEN <<Txt("Not set")>> ELSE <<>>)
                  /\ (Has(rec, "dueDate") /\ t \notin {"marvin_get_categories", "marvin_get_labels"})
                        => Len(RenderedLines(<<Lit("- **Due**: ")>>)) = 1
            /\ fnArg.fmt = "json" => Len(JsonObjects(fnRet.output)) = 1

\* C23 witness: the due-task listing rendered a record without any field in
\* markdown: an open "Untitled" with its due date "Not set".
C23_Witness ==
    /\ fn = "rendered"
    /\ fnArg.t = "marvin_get_due_tasks"
    /\ fnArg.fmt = "markdown"
    /\ DOMAIN fnArg.rec = {}
    /\ HeadingTitle(fnArg.t, Headings(fnRet.output)[1]) = Txt("Untitled")
    /\ RenderedLines(<<Lit("- **Due**: ")>>) = <<Txt("Not set")>>

\* The most characters of a note a listing's note line keeps.
NoteLimit(t) == IF t \in {"marvin_get_todays_tasks", "marvin_get_due_tasks"} THEN 200 ELSE 150

\* C24: in markdown a record has at most one note line; the line holds a
\* prefix of the note, of at most 200 characters in today's tasks and due
\* tasks and at most 150 in the category, label and child listings (all of
\* the note when it is shorter; the label listing shows no note at all), and
\* a record with no note, or an empty one, has no note line.
C24_NoteLinePrefixWithinLimit ==
    (fn = "rendered" /\ fnArg.fmt = "markdown") =>
        LET rec   == fnArg.rec
            t     == fnArg.t
            n     == IF Has(rec, "note") THEN rec.note.n ELSE 0
            notes == RenderedLines(<<Lit("- **Note**: ")>>)
        IN  /\ Len(notes) <= 1
            /\ n = 0 => notes = <<>>
            /\ (n > 0 /\ t # "marvin_get_labels") => Len(notes) = 1
            /\ \A i \in 1..Len(notes) :
                  /\ Len(notes[i]) = 1
                  /\ notes[i][1].k = "val"
                  /\ notes[i][1].s = rec.note.s
                  /\ notes[i][1].n <= NoteLimit(t)
                  /\ notes[i][1].n = (IF n < NoteLimit(t) THEN n ELSE NoteLimit(t))

\* C24 witness: the category listing shows the first 150 characters of a
\* note of 151.
C24_Witness ==
    /\ fn = "rendered"
    /\ fnArg.fmt = "markdown"
    /\ fnArg.t = "marvin_get_categories"
    /\ Has(fnArg.rec, "note")
    /\ fnArg.rec.note = Str("note1", 151)
    /\ RenderedLines(<<Lit("- **Note**: ")>>) = << <<Val("note1", 150)>> >>

\* What the listing of the call returns for the same record, reference date
\* and server in the given format.
RenderedAs(fmt) ==
    ListingBody(fnArg.t, RenderParams([fnArg EXCEPT !.fmt = fmt]), "2024-03-15", fnArg.sv,
                OkReply(ListPayload(<<fnArg.rec>>))).output

\* The day counts the model's due dates can give.
DayCounts == { <<Lit(DecStr(n))>> : n \in 1..(MaxDaysApart + 6) }

\* C25: in the due-task listing, for the same record and reference date, the
\* markdown heading carries "[OVERDUE]" exactly when the JSON object carries
\* daysOverdue, and daysOverdue, when there, is an integer of 1 or more.
C25_OverdueTagIffDaysOverdue ==
    (fn = "rendered" /\ fnArg.t = "marvin_get_due_tasks") =>
        LET tags == HeadingTags(RenderedAs("markdown"), 1)
            days == JsonObjectValues(RenderedAs("json"), 1, "daysOverdue")
        IN  /\ fnRet.output = RenderedAs(fnArg.fmt)
            /\ (" [OVERDUE]" \in tags) <=> (days # {})
            /\ Cardinality(days) <= 1
            /\ days \subseteq DayCounts

\* C25 witness: a record due late on the day before the reference date is
\* not overdue in either format; one due at midnight of that day is, by 1.
C25_Witness ==
    /\ fn = "rendered"
    /\ fnArg.t = "marvin_get_due_tasks"
    /\ fnArg.fmt = "json"
    /\ Has(fnArg.rec, "dueDate")
    /\ fnArg.rec.dueDate = Ts(RefDay - 1, 0)
    /\ HeadingTags(RenderedAs("markdown"), 1) = {" [OVERDUE]"}
    /\ JsonObjectValues(fnRet.output, 1, "daysOverdue") = { <<Lit("1")>> }

====
